---- MODULE Spec2Model ----
(***************************************************************************)
(* Catalyst / Mockingbird: a declarative mock HTTP server.                 *)
(*                                                                         *)
(* The module models the parts of the program, each with its own           *)
(* specification over the shared state:                                    *)
(*   SpecChaos    - chaos.Engine.ApplyChaos as a function of its           *)
(*                  configuration and its three rolls;                     *)
(*   SpecPipeline - handler.Handler.HandleRequest, one request at a time,  *)
(*                  with template rendering, fan-out and capture;          *)
(*   SpecResponse - the response headers and bodies of a plain route;      *)
(*   SpecFanOut, SpecRetry, SpecRender - the async calls of a request,     *)
(*                  their attempts and their template renderings;          *)
(*   SpecBatch, SpecStop - database.BatchManager with concurrent           *)
(*                  producers, aggregator, flusher, writer workers, Stop   *)
(*                  and the process shutdown of main();                    *)
(*   SpecRestart, SpecControl, SpecConsumer - server.Manager: listener     *)
(*                  map, stored descriptors, restartServerAttempt, the     *)
(*                  control plane and the restart manager;                 *)
(*   SpecStartup  - loading and validating the descriptors;                *)
(*   SpecShutdown - the listener tasks from Manager.Start to Manager.Stop. *)
(*   SpecExclusion, SpecLifecycle - the restart manager against            *)
(*                  Manager.Stop, and its Start and Stop;                  *)
(*   SpecWatcher  - a ConfigWatcher over a ServerController's channel;     *)
(*   SpecWorker   - database.Worker: Start, Stop and the TimeStop mutex.   *)
(* SpecBatchLive, SpecShutdownLive and SpecWorkerLive add the fairness of  *)
(* the scheduler for the progress properties.                              *)
(***************************************************************************)
EXTENDS Integers, Sequences, FiniteSets, TLC

None == "none"

\* ------------------------------------------------------------------------
\* Bounds of the model
\* ------------------------------------------------------------------------
NumRequests   == 2     \* inbound requests explored
BatchSize     == 2     \* BatchConfig.BatchSize explored
MaxQueueSize  == 1     \* BatchConfig.MaxQueueSize explored
MaxBatchQueue == 1     \* BatchConfig.MaxBatchQueue explored
MaxWorkers    == 1     \* BatchConfig.MaxWorkers explored
RetryAttempts == 2     \* BatchConfig.RetryAttempts explored
MaxFaults     == 1     \* store failures injected in one behaviour
MaxTimeouts   == 1
MaxEdits      == 2
MaxRestarts   == 2
MaxForeign    == 1
NumListeners  == 2     \* servers the descriptors declare at start
MaxRespawns   == 1     \* listeners replaced by restarts in one behaviour
MaxSignals    == 3     \* restart signals queued when the consumer starts
MaxElapsed    == 5     \* ticks a restart handler may run
MaxCallers    == 3     \* goroutines calling into one database.Worker
WorkerQueueSize == 1   \* WorkerConfig.QueueSize explored

\* ------------------------------------------------------------------------
\* Chaos engine (src/internal/chaos/chaos.go)
\* ------------------------------------------------------------------------

\* Probability strings a descriptor can carry (models.Latency.Probability is
\* a string that strconv.ParseFloat converts).
ProbStrings == {"0", "50", "100", "-5", "abc", "NaN"}

\* strconv.ParseFloat(s, 64): value, NaN, or a syntax error (value 0).
ParseFloat(s) ==
  CASE s = "0"   -> [err |-> FALSE, nan |-> FALSE, val |-> 0]
    [] s = "50"  -> [err |-> FALSE, nan |-> FALSE, val |-> 50]
    [] s = "100" -> [err |-> FALSE, nan |-> FALSE, val |-> 100]
    [] s = "-5"  -> [err |-> FALSE, nan |-> FALSE, val |-> 0 - 5]
    [] s = "NaN" -> [err |-> FALSE, nan |-> TRUE,  val |-> 0]
    [] OTHER     -> [err |-> TRUE,  nan |-> FALSE, val |-> 0]

\* IEEE comparisons with a parsed float: every comparison with NaN is false.
FloatLE0(p) == ~p.nan /\ p.val <= 0
RollGT(roll, p) == ~p.nan /\ roll > p.val

\* e.rand.Float64()*100 lies in [0,100); the rolls explored.
Rolls == {0, 50, 99}

\* The axis test of chaos.go:64, :82, :100: the axis is skipped when
\* roll > probability.
AxisSkips(roll, p) == RollGT(roll, p)

\* applyLatency: the delay in milliseconds, 0 for none.
applyLatency(latency, roll) ==
  IF latency.Time <= 0 THEN 0
  ELSE LET probability == ParseFloat(latency.Probability) IN
       IF probability.err \/ FloatLE0(probability) THEN 0
       ELSE IF AxisSkips(roll, probability) THEN 0
       ELSE latency.Time

\* applyAbort without its `probability <= 0` test.
applyAbortNoZeroTest(abort, roll) ==
  IF abort.Code <= 0 THEN 0
  ELSE LET probability == ParseFloat(abort.Probability) IN
       IF AxisSkips(roll, probability) THEN 0
       ELSE abort.Code

\* applyAbort: the status code to abort with, 0 for none.
applyAbort(abort, roll) ==
  IF abort.Code <= 0 THEN 0
  ELSE LET probability == ParseFloat(abort.Probability) IN
       IF probability.err \/ FloatLE0(probability) THEN 0
       ELSE IF AxisSkips(roll, probability) THEN 0
       ELSE abort.Code

\* applyError: the status code to fail with, 0 for none.
applyError(errorConfig, roll) ==
  IF errorConfig.Code <= 0 THEN 0
  ELSE LET probability == ParseFloat(errorConfig.Probability) IN
       IF probability.err \/ FloatLE0(probability) THEN 0
       ELSE IF AxisSkips(roll, probability) THEN 0
       ELSE errorConfig.Code

\* gin's response writer as the handler uses it: the status to send (200
\* until set), whether the header went out, and the body bytes written.
NewWriter == [status |-> 200, written |-> FALSE, body |-> <<>>, sent |-> 0]

\* w.WriteHeader(code): records the status; ignored once the header is out.
WriteHeader(w, code) ==
  IF code > 0 /\ w.status # code
  THEN IF w.written THEN w ELSE [w EXCEPT !.status = code]
  ELSE w

\* The chaos blocks a descriptor can carry (models.ChaosInjection).  A
\* location holds a pointer to its block: nil is TRUE for a location without
\* a chaos block, and v is then the zero value.
LatencyConfigs == [Time : {0, 100}, Probability : ProbStrings]
AbortConfigs   == [Code : {0, 503}, Probability : ProbStrings]
ErrorConfigs   == [Code : {0, 500}, Probability : ProbStrings,
                   Response : {"", "chaos error"}]
ChaosInjection == [Latency : LatencyConfigs, Abort : AbortConfigs,
                   Error : ErrorConfigs]
ZeroChaos == [Latency |-> [Time |-> 0, Probability |-> "0"],
              Abort   |-> [Code |-> 0, Probability |-> "0"],
              Error   |-> [Code |-> 0, Probability |-> "0", Response |-> ""]]
NilChaos == [nil |-> TRUE, v |-> ZeroChaos]
ChaosPointers == {NilChaos} \cup [nil : {FALSE}, v : ChaosInjection]

\* ApplyChaos as a dispatch over a priority list: the first axis that fires
\* is the only one applied.
ApplyChaosDispatch(w, chaosConfig, rolls) ==
  IF chaosConfig.nil
  THEN [ret |-> FALSE, w |-> w, slept |-> 0, abortCode |-> 0, errorCode |-> 0,
        errorTried |-> FALSE]
  ELSE LET latency   == applyLatency(chaosConfig.v.Latency, rolls[1])
           abortCode == applyAbort(chaosConfig.v.Abort, rolls[2])
           errorCode == applyError(chaosConfig.v.Error, rolls[3])
       IN  IF latency > 0
           THEN [ret |-> FALSE, w |-> w, slept |-> latency, abortCode |-> 0,
                 errorCode |-> 0, errorTried |-> FALSE]
           ELSE IF abortCode > 0
           THEN [ret |-> TRUE, w |-> WriteHeader(w, abortCode), slept |-> 0,
                 abortCode |-> abortCode, errorCode |-> 0, errorTried |-> FALSE]
           ELSE IF errorCode > 0
           THEN [ret |-> TRUE, w |-> WriteHeader(w, errorCode), slept |-> 0,
                 abortCode |-> 0, errorCode |-> errorCode, errorTried |-> TRUE]
           ELSE [ret |-> FALSE, w |-> w, slept |-> 0,
                 abortCode |-> 0, errorCode |-> 0, errorTried |-> TRUE]

\* ApplyChaos(w, chaosConfig) with the three rolls it may draw: the writer
\* afterwards, the time slept and the short-circuit flag it returns.
ApplyChaos(w, chaosConfig, rolls) ==
  IF chaosConfig.nil
  THEN [ret |-> FALSE, w |-> w, slept |-> 0, abortCode |-> 0, errorCode |-> 0,
        errorTried |-> FALSE]
  ELSE LET latency   == applyLatency(chaosConfig.v.Latency, rolls[1])
           abortCode == applyAbort(chaosConfig.v.Abort, rolls[2])
           errorCode == applyError(chaosConfig.v.Error, rolls[3])
       IN  IF abortCode > 0
           THEN [ret |-> TRUE, w |-> WriteHeader(w, abortCode), slept |-> latency,
                 abortCode |-> abortCode, errorCode |-> 0, errorTried |-> FALSE]
           ELSE IF errorCode > 0
           THEN [ret |-> TRUE, w |-> WriteHeader(w, errorCode), slept |-> latency,
                 abortCode |-> 0, errorCode |-> errorCode, errorTried |-> TRUE]
           ELSE [ret |-> FALSE, w |-> w, slept |-> latency,
                 abortCode |-> 0, errorCode |-> 0, errorTried |-> TRUE]

\* ------------------------------------------------------------------------
\* State
\* ------------------------------------------------------------------------
VARIABLES
  chaosCfg,       \* SpecChaos: the chaos pointer under test
  chaosRolls,     \* SpecChaos: the rolls of the last application
  chaosDone,      \* SpecChaos: ApplyChaos has been called
  chaosOut,       \* SpecChaos: the result of the last application
  loc,            \* the models.Location the route was registered with
  inb,            \* what the inbound requests carry: body and X-Transaction-ID
  clients,        \* how many requests the clients keep in flight at once
  randomCache,    \* handler.randomCache: transaction id -> key -> value
  randomCacheMutex, \* holder of handler.randomCacheMutex
  acc,            \* accesses to a randomValues map that are under way
  descriptors,    \* the descriptor files of the config directory, per server name
  configs,        \* Manager.configs: the stored descriptors, per server name
  servers,        \* Manager.servers: port -> registered listener
  foreign,        \* ports held by other processes
  restart,        \* the restart in progress or last finished
  edits,          \* descriptor rewrites so far
  restartChan,    \* Manager.restartChan: the pending restart signals
  put,            \* the last PUT /api/mock/config and what it did
  consumer,       \* RestartManager.run: its position, the signal held, the time spent
  watcher,        \* a ConfigWatcher: its loop's position and the handlers running
  worker,         \* a database.Worker: TimeStop, Running, its routines and its callers
  dir,            \* the descriptor files of the directory main loads at start
  loaded,         \* main: position, and the trees LoadConfigFromDir returned
  create,         \* the last CreateServers call: its tree and whether it failed
  lst,            \* every *Server made so far: port, httpServer, listener task
  reg,            \* Manager.servers as the set of *Server it holds
  wg,             \* Manager.wg: listener tasks added and not done
  mgr,            \* main's position around Manager.Start and Manager.Stop
  rq,             \* per inbound request: the handler's position and locals
  accepting,      \* the listeners accept requests (false once shutdown began)
  exited,         \* main() has returned
  crashed,        \* an unrecovered panic ended the process
  bmRunning,      \* BatchManager.Running
  bmLocked,       \* BatchManager.Mutex is write-locked (by Stop)
  qmRunning,      \* QueueManager.Running
  qmLocked,       \* QueueManager.Mutex is write-locked (by QueueManager.Stop)
  ctxDone,        \* QueueManager.Ctx is cancelled
  inputClosed,    \* close(InputQueue) happened
  batchClosed,    \* close(BatchQueue) happened
  resultClosed,   \* close(ResultQueue) happened
  InputQueue,     \* QueueManager.InputQueue: buffered records
  BatchQueue,     \* QueueManager.BatchQueue: buffered batches
  ResultQueue,    \* QueueManager.ResultQueue: buffered outcomes
  CurrentBatch,   \* BatchManager.CurrentBatch.Operations
  batchMutex,     \* holder of BatchManager.BatchMutex, or None
  pr,             \* per batcher task: position, batch in hand, attempt
  aggOp,          \* record the aggregator received and has not appended (0: none)
  stopPc,         \* position of the caller of BatchManager.Stop
  heldAtStop,     \* history: the records the batcher held when Stop was called
  gos,            \* insertBatchTransaction goroutines that have not returned
  store,          \* committed rows of mock_transactions: rows per uuid
  faults,         \* store failures injected so far
  timeouts,       \* per-batch timeouts expired so far
  TotalProcessed, \* BatchManager.TotalProcessed
  TotalBatches,   \* BatchManager.TotalBatches
  TotalErrors,    \* BatchManager.TotalErrors
  batches         \* history: every batch handed off by sendBatch

chaosVars == <<chaosCfg, chaosRolls, chaosDone, chaosOut>>
procVars  == <<accepting, exited, crashed>>
lockVars  == <<bmRunning, bmLocked, qmRunning, qmLocked>>
chanVars  == <<ctxDone, inputClosed, batchClosed, resultClosed>>
queueVars == <<InputQueue, BatchQueue, ResultQueue>>
dbVars    == <<gos, store, faults, timeouts>>
statVars  == <<TotalProcessed, TotalBatches, TotalErrors>>
stopVars  == <<stopPc, heldAtStop>>
batchVars == <<bmRunning, bmLocked, qmRunning, qmLocked, ctxDone, inputClosed,
               batchClosed, resultClosed, InputQueue, BatchQueue, ResultQueue,
               CurrentBatch, batchMutex, pr, aggOp, stopPc, heldAtStop, gos, store,
               faults,
               timeouts, TotalProcessed, TotalBatches, TotalErrors, batches>>
\* what the batcher and the process leave alone
restartVars == <<descriptors, configs, servers, foreign, restart, edits>>
signalVars == <<restartChan, put, consumer, watcher>>
startVars == <<dir, loaded, create>>
taskVars == <<lst, reg, wg, mgr>>
raceVars == <<randomCacheMutex, acc>>
workerVars == <<worker>>
outerVars == <<chaosVars, workerVars, restartVars, signalVars, startVars, raceVars, taskVars, loc, inb, clients>>
frameVars == <<outerVars, randomCache>>
\* what the supervisor's restart leaves alone
processVars == <<chaosVars, workerVars, signalVars, startVars, raceVars, taskVars, loc, inb, clients, randomCache, rq, procVars,
                 batchVars>>
vars == <<frameVars, rq, procVars, batchVars>>

\* ------------------------------------------------------------------------
\* database.Worker (src/database/worker.go)
\* ------------------------------------------------------------------------
Callers == 1..MaxCallers

IdleCall == [op |-> "none", pc |-> "idle"]

\* NewWorker: not running, no routine started, TimeStop free (writer 0 is
\* nobody), the context live, JobQueue empty, nobody calling.
NewWorker ==
  [Running |-> FALSE, writer |-> 0, reads |-> [c \in Callers |-> 0],
   routines |-> 0, cancelled |-> FALSE, jobs |-> 0,
   call |-> [c \in Callers |-> IdleCall]]

WorkerIdle == worker = NewWorker

\* ------------------------------------------------------------------------
\* SpecChaos
\* ------------------------------------------------------------------------
NoChaosOut == ApplyChaos(NewWriter, NilChaos, <<0, 0, 0>>)

ChaosIdle ==
  /\ chaosCfg = NilChaos
  /\ chaosRolls = <<0, 0, 0>>
  /\ chaosDone = FALSE
  /\ chaosOut = NoChaosOut

InitChaos ==
  /\ chaosCfg \in ChaosPointers
  /\ chaosRolls = <<0, 0, 0>>
  /\ chaosDone = FALSE
  /\ chaosOut = NoChaosOut

\* One call of Engine.ApplyChaos on a fresh response writer.
DoApplyChaos ==
  /\ ~chaosDone
  /\ \E r1 \in Rolls, r2 \in Rolls, r3 \in Rolls :
       /\ chaosRolls' = <<r1, r2, r3>>
       /\ chaosOut' = ApplyChaos(NewWriter, chaosCfg, <<r1, r2, r3>>)
  /\ chaosDone' = TRUE
  /\ UNCHANGED <<chaosCfg, workerVars, restartVars, signalVars, startVars, raceVars, taskVars, loc, inb, clients, randomCache, rq, procVars,
                 batchVars>>

\* ------------------------------------------------------------------------
\* Request pipeline: pure parts (src/internal/handler/handler.go)
\* ------------------------------------------------------------------------
Requests == 1..NumRequests

\* c.Writer.Write(data): the first write sends the header with the status
\* recorded so far.
Write(w, data) ==
  [w EXCEPT !.written = TRUE,
            !.sent = IF w.written THEN w.sent ELSE w.status,
            !.body = Append(w.body, data)]

\* c.JSON(code, obj) and c.String(code, text): c.Status(code), then the body.
Render(w, code, data) == Write(WriteHeader(w, code), data)

\* The status line the client receives: gin sends the header with the
\* recorded status when the handler chain returns without a write.
EmittedStatus(w) == IF w.written THEN w.sent ELSE w.status

\* Response and fan-out body templates: none, literal text, a call of a
\* helper that caches its value, a call of one that does not, and a template
\* that does not parse.
Templates == {"", "plain", "{{randInt 1 9}}", "{{randString 4}}", "{{"}

\* A template that prints a field of the JSON request body.
FieldTemplate == "{{.Amount}}"

\* strings.Contains(responseTemplate, "{{")
HasTemplateVars(t) ==
  t \in {"{{randInt 1 9}}", "{{randString 4}}", "{{", FieldTemplate}

\* template.Parse fails
ParseFails(t) == t = "{{"

\* The helper a template calls.
HelperOf(t) ==
  CASE t = "{{randInt 1 9}}"  -> "randInt"
    [] t = "{{randString 4}}" -> "randString"
    [] OTHER -> "none"

\* The helpers that look their value up in randomValues before generating:
\* randString, randChoice and randFloat do not.
CachingHelpers == {"randInt", "randNumericString", "randName",
                   "randVenezuelanID", "randAccount", "randMessage"}

\* The values a generator can produce.
Values == {"v1", "v2"}

\* X-Transaction-ID as the request carries it: 0 for no header, 1 for the
\* header value the clients send.  uuid.New() yields an id nothing else has:
\* one per request p and rendering k (1 response, 2 capture, 2+i fan-out i).
HeaderIds == {0, 1}
FreshId(p, k) == 1 + (p - 1) * (2 + Len(loc.Async)) + k

\* Header names as a descriptor writes them (models.Headers is a Go map with
\* case-sensitive keys) and the value the descriptors explored give each.
HeaderNames == {"Content-Type", "content-type", "X-Test-Header"}
HeaderValueOf(k) == IF k = "X-Test-Header" THEN "test-value" ELSE "text/plain"
HeaderMaps == {[k \in S |-> HeaderValueOf(k)] : S \in SUBSET HeaderNames}
\* A location without a headers block (nil pointer).
NilHeaders == <<>>

\* The name http.Header stores a header under.
CanonicalKey(k) == IF k = "content-type" THEN "Content-Type" ELSE k

\* c.Header(key, value): http.Header.Set, or Del for an empty value.
Header(hdr, key, value) ==
  IF value = ""
  THEN [k \in DOMAIN hdr \ {CanonicalKey(key)} |-> hdr[k]]
  ELSE (CanonicalKey(key) :> value) @@ hdr

\* The orders in which `range *location.Headers` can visit the map.
RangeOrders(headers) ==
  {o \in [1..Cardinality(DOMAIN headers) -> DOMAIN headers] :
     \A i, j \in DOMAIN o : i # j => o[i] # o[j]}

\* HandleRequest, `for key, value := range *location.Headers`: c.Header for
\* each entry, in the order the range visits them.
RECURSIVE SetHeaders(_, _, _)
SetHeaders(hdr, headers, order) ==
  IF order = <<>> THEN hdr
  ELSE SetHeaders(Header(hdr, Head(order), headers[Head(order)]), headers,
                  Tail(order))

\* HandleRequest, the default content type: set when the location has a
\* response and its headers map has no non-empty entry under the key
\* "Content-Type".
DefaultContentType(hdr) ==
  IF loc.Response # ""
       /\ ("Content-Type" \notin DOMAIN loc.Headers
             \/ loc.Headers["Content-Type"] = "")
  THEN Header(hdr, "Content-Type", "application/json")
  ELSE hdr

\* The content types gin's JSON and String renderings carry.
JSONContentType == "application/json; charset=utf-8"
PlainContentType == "text/plain; charset=utf-8"

\* gin's writeContentType, called by c.JSON and c.String: the content type
\* of the rendering is set when the response has none yet.
writeContentType(hdr, value) ==
  IF "Content-Type" \in DOMAIN hdr THEN hdr
  ELSE ("Content-Type" :> value) @@ hdr

\* A models.Location as processed at registration.  Schema is TRUE when a
\* schema is registered under Path:Method, StaticFilesDir when the directory
\* is set.
PipelineChaos ==
  { NilChaos,
    [nil |-> FALSE, v |-> [Latency |-> [Time |-> 100, Probability |-> "0"],
                           Abort   |-> [Code |-> 503, Probability |-> "-5"],
                           Error   |-> [Code |-> 500, Probability |-> "abc",
                                        Response |-> "chaos error"]]],
    [nil |-> FALSE, v |-> [Latency |-> [Time |-> 100, Probability |-> "50"],
                           Abort   |-> [Code |-> 503, Probability |-> "50"],
                           Error   |-> [Code |-> 0, Probability |-> "0",
                                        Response |-> ""]]],
    [nil |-> FALSE, v |-> [Latency |-> [Time |-> 0, Probability |-> "0"],
                           Abort   |-> [Code |-> 0, Probability |-> "0"],
                           Error   |-> [Code |-> 500, Probability |-> "100",
                                        Response |-> "chaos error"]]] }
AsyncConfigs ==
  {<<>>} \cup {<<[Body |-> b]>> : b \in {"{{randInt 1 9}}", "{{randString 4}}"}}
Locations ==
  [StatusCode : {201}, Response : Templates, Schema : BOOLEAN,
   StaticFilesDir : BOOLEAN, ChaosInjection : PipelineChaos,
   Async : AsyncConfigs, Headers : {NilHeaders}]
PlainLocation ==
  [StatusCode |-> 200, Response |-> "plain", Schema |-> FALSE,
   StaticFilesDir |-> FALSE, ChaosInjection |-> NilChaos, Async |-> <<>>,
   Headers |-> NilHeaders]

\* What the inbound requests carry: a body that is valid JSON satisfying the
\* schema, not JSON at all, or JSON the schema rejects; and the header.
Bodies == {"valid", "notjson", "mismatch"}
Inbounds == [body : Bodies, txid : HeaderIds]
PlainInbound == [body |-> "valid", txid |-> 0]

\* What FieldTemplate prints for the request data unmarshalled from the bytes
\* io.ReadAll returned: the field's value for the valid body, text/template's
\* "<no value>" when the map has no such key (empty body, not JSON, or JSON
\* without the field).
FieldOf(data) == IF data = "valid" THEN "amount" ELSE "<no value>"

\* validateRequestBody without its schema.Validate call.
validateRequestBodyParseOnly(body) == body = "notjson"

\* validateRequestBody: TRUE when it returns an error.
validateRequestBody(body) == body \in {"notjson", "mismatch"}

\* processResponseTemplate(c, template) for request p, rendering k; data is
\* what io.ReadAll(c.Request.Body) returned and v the value a generator
\* produces if it is run.  Yields the text, the error flag and the cache
\* afterwards.
processResponseTemplate(p, k, template, cache, v, data) ==
  IF ~HasTemplateVars(template)
  THEN [out |-> template, err |-> FALSE, cache |-> cache]
  ELSE
    LET transactionID == IF inb.txid # 0 THEN inb.txid ELSE FreshId(p, k)
        cache1 == IF transactionID \in DOMAIN cache
                  THEN cache
                  ELSE (transactionID :> <<>>) @@ cache
        randomValues == cache1[transactionID]
        helper == HelperOf(template)
    IN  IF ParseFails(template)
        THEN [out |-> "", err |-> TRUE, cache |-> cache1]
        ELSE IF template = FieldTemplate
        THEN [out |-> FieldOf(data), err |-> FALSE, cache |-> cache1]
        ELSE IF helper \in CachingHelpers
        THEN IF helper \in DOMAIN randomValues
             THEN [out |-> randomValues[helper], err |-> FALSE, cache |-> cache1]
             ELSE [out |-> v, err |-> FALSE,
                   cache |-> [cache1 EXCEPT ![transactionID] =
                                              (helper :> v) @@ randomValues]]
        ELSE [out |-> v, err |-> FALSE, cache |-> cache1]

\* getActualStatusCode with the configured status in place of the writer's.
getConfiguredStatusCode(w) == loc.StatusCode

\* getActualStatusCode: the status the response writer holds.
getActualStatusCode(w) == IF w.status = 0 THEN 200 ELSE w.status

\* getActualResponseBody: the body the record gets and the cache afterwards.
getActualResponseBody(p, w, cache, v) ==
  LET actualStatusCode == getActualStatusCode(w) IN
  IF ~loc.ChaosInjection.nil /\ actualStatusCode # loc.StatusCode
  THEN [body |-> loc.ChaosInjection.v.Error.Response, cache |-> cache]
  ELSE IF loc.Response # ""
  THEN LET r == processResponseTemplate(p, 2, loc.Response, cache, v,
                                        rq[p].body) IN
         [body |-> IF r.err THEN loc.Response ELSE r.out, cache |-> r.cache]
  ELSE [body |-> "", cache |-> cache]

\* A request before the handler runs, and the record insertTransactionToDB
\* builds for it (database.Mockdata: status and body of the response).
NoRecord == [built |-> FALSE, status |-> 0, body |-> ""]
\* body is what c.Request.Body yields to the next reader, data what the
\* handler's io.ReadAll returned, call the state of each handleAsyncCall
\* goroutine, hdr the header map of the response writer.
\* ren is the template execution of the handler (index 0) and of each
\* goroutine: its position, the transaction id it uses and the value its
\* helper returns.
NoRender == [pc |-> "idle", tx |-> 0, val |-> "none"]
NoCall == [pc |-> "none", data |-> "none", tries |-> 0, result |-> "none",
           waits |-> 0]
NewRequest ==
  [pc |-> "new", how |-> "none", w |-> NewWriter, short |-> FALSE,
   spawned |-> {}, resp |-> "none",
   fan |-> [i \in 1..Len(loc.Async) |-> "none"], rec |-> NoRecord,
   body |-> inb.body, data |-> "none",
   call |-> [i \in 1..Len(loc.Async) |-> NoCall], hdr |-> <<>>,
   ren |-> [i \in 0..Len(loc.Async) |-> NoRender]]

\* insertTransactionToDB between the IsRunning test and AddOperation.
BuildRecord(p, v) ==
  LET b == getActualResponseBody(p, rq[p].w, randomCache, v) IN
    [rec |-> [built |-> TRUE, status |-> getActualStatusCode(rq[p].w),
              body |-> b.body],
     cache |-> b.cache]

\* ------------------------------------------------------------------------
\* Transaction batcher (src/database/batch.go, src/database/colas.go)
\* ------------------------------------------------------------------------
WorkerNames == <<"w1", "w2", "w3">>
Workers == {WorkerNames[i] : i \in 1..MaxWorkers}
\* The tasks that can run processBatch: the writer workers, and the
\* aggregator, the flusher and the caller of Stop through sendBatch.
Tasks == Workers \cup {"agg", "flush", "stop"}

Alive == ~exited /\ ~crashed

IdleTask == [pc |-> "idle", batch |-> <<>>, attempt |-> 0, done |-> "none",
             res |-> "none", final |-> FALSE]


\* A non-blocking select { case ch <- v: ; case <-Ctx.Done(): ; default: }
\* as AddRequest, AddBatch and SendResult write it: the outcomes the Go
\* runtime can choose.  A send on a closed channel is a ready case that
\* panics when chosen; default runs only when no case is ready.
SelectSend(closed, len, cap) ==
  LET canSend == ~closed /\ len < cap IN
    (IF canSend THEN {"sent"} ELSE {})
      \cup (IF closed THEN {"panic"} ELSE {})
      \cup (IF ctxDone THEN {"ctx"} ELSE {})
      \cup (IF ~canSend /\ ~closed /\ ~ctxDone THEN {"full"} ELSE {})

\* MaxOpenConns = 1: the single connection is held by the transaction that
\* has begun and not yet committed or rolled back.
ConnFree == \A g \in gos : g.st # "exec"

\* NewBatchManager followed by Start, as CreateServer does: queues empty,
\* an empty current batch, workers, aggregator and flusher waiting.
BatchInit ==
  /\ bmRunning = TRUE /\ bmLocked = FALSE
  /\ qmRunning = TRUE /\ qmLocked = FALSE
  /\ ctxDone = FALSE
  /\ inputClosed = FALSE /\ batchClosed = FALSE /\ resultClosed = FALSE
  /\ InputQueue = <<>> /\ BatchQueue = <<>> /\ ResultQueue = <<>>
  /\ CurrentBatch = <<>>
  /\ batchMutex = None
  /\ pr = [t \in Tasks |-> IdleTask]
  /\ aggOp = 0
  /\ stopPc = "none"
  /\ heldAtStop = {}
  /\ gos = {}
  /\ store = [p \in Requests |-> 0]
  /\ faults = 0 /\ timeouts = 0
  /\ TotalProcessed = 0 /\ TotalBatches = 0 /\ TotalErrors = 0
  /\ batches = {}

ProcInit ==
  /\ accepting = TRUE
  /\ exited = FALSE
  /\ crashed = FALSE

\* --- capture: insertTransactionToDB and AddOperation, per request --------


\* insertTransactionToDB: the IsRunning test (a read lock on bm.Mutex); the
\* record is built and handed to AddOperation only when the batcher runs.
CaptureIsRunning(p) ==
  /\ Alive /\ rq[p].pc = "capture"
  /\ ~bmLocked
  /\ IF bmRunning
     THEN \E v \in Values :
            LET b == BuildRecord(p, v) IN
              /\ rq' = [rq EXCEPT ![p] = [@ EXCEPT !.pc = "addop", !.rec = b.rec]]
              /\ randomCache' = b.cache
     ELSE /\ rq' = [rq EXCEPT ![p] = [@ EXCEPT !.pc = "done", !.how = "skipped"]]
          /\ UNCHANGED randomCache
  /\ UNCHANGED <<outerVars, procVars, batchVars>>

\* AddOperation: the Running test; not running falls back to insertSync.
AddOperationCheck(p) ==
  /\ Alive /\ rq[p].pc = "addop"
  /\ ~bmLocked
  /\ rq' = [rq EXCEPT ![p].pc = IF bmRunning THEN "addreq" ELSE "insertsync"]
  /\ UNCHANGED <<frameVars, procVars, batchVars>>

\* AddRequest: the Running test of the queue manager; ErrQueueNotRunning is
\* returned by AddOperation to the handler, which logs it.
AddRequestCheck(p) ==
  /\ Alive /\ rq[p].pc = "addreq"
  /\ ~qmLocked
  /\ rq' = [rq EXCEPT ![p] = IF qmRunning
                              THEN [@ EXCEPT !.pc = "select"]
                              ELSE [@ EXCEPT !.pc = "done", !.how = "dropped"]]
  /\ UNCHANGED <<frameVars, procVars, batchVars>>

\* What AddOperation does with ErrQueueFull: insert directly.
OnQueueFullDrop(r) == [r EXCEPT !.pc = "done", !.how = "dropped"]
OnQueueFull(r) == [r EXCEPT !.pc = "insertsync"]

\* AddRequest: the select on InputQueue.  A panic (send on a closed
\* channel) is recovered by gin.Recovery; the record is gone.
AddRequestSelect(p) ==
  /\ Alive /\ rq[p].pc = "select"
  /\ \E o \in SelectSend(inputClosed, Len(InputQueue), MaxQueueSize) :
       CASE o = "sent" ->
              /\ InputQueue' = Append(InputQueue, p)
              /\ rq' = [rq EXCEPT ![p] = [@ EXCEPT !.pc = "done", !.how = "queued"]]
         [] o = "full" ->
              /\ rq' = [rq EXCEPT ![p] = OnQueueFull(@)]
              /\ UNCHANGED InputQueue
         [] OTHER ->
              /\ rq' = [rq EXCEPT ![p] = [@ EXCEPT !.pc = "done", !.how = "dropped"]]
              /\ UNCHANGED InputQueue
  /\ UNCHANGED <<frameVars, procVars, lockVars, chanVars, BatchQueue, ResultQueue,
                 CurrentBatch, batchMutex, pr, aggOp, stopVars, dbVars, statVars,
                 batches>>

\* insertTransactionToDB and AddOperation up to the select, taken as one
\* step: the Running tests, the record and the select.  Exact where no task
\* changes Running between the tests, that is, where BatchManager.Stop does
\* not run.
Capture(p) ==
  /\ Alive /\ rq[p].pc = "capture"
  /\ ~bmLocked /\ ~qmLocked
  /\ IF ~bmRunning
     THEN /\ rq' = [rq EXCEPT ![p] = [@ EXCEPT !.pc = "done", !.how = "skipped"]]
          /\ UNCHANGED <<InputQueue, randomCache>>
     ELSE \E v \in Values :
       LET b == BuildRecord(p, v)
           r == [rq[p] EXCEPT !.rec = b.rec]
       IN
       /\ randomCache' = b.cache
       /\ IF ~qmRunning
          THEN /\ rq' = [rq EXCEPT ![p] = [r EXCEPT !.pc = "done", !.how = "dropped"]]
               /\ UNCHANGED InputQueue
          ELSE \E o \in SelectSend(inputClosed, Len(InputQueue), MaxQueueSize) :
                 CASE o = "sent" ->
                        /\ InputQueue' = Append(InputQueue, p)
                        /\ rq' = [rq EXCEPT ![p] = [r EXCEPT !.pc = "done",
                                                             !.how = "queued"]]
                   [] o = "full" ->
                        /\ rq' = [rq EXCEPT ![p] = OnQueueFull(r)]
                        /\ UNCHANGED InputQueue
                   [] OTHER ->
                        /\ rq' = [rq EXCEPT ![p] = [r EXCEPT !.pc = "done",
                                                             !.how = "dropped"]]
                        /\ UNCHANGED InputQueue
  /\ UNCHANGED <<outerVars, procVars, lockVars, chanVars, BatchQueue, ResultQueue,
                 CurrentBatch, batchMutex, pr, aggOp, stopVars, dbVars, statVars,
                 batches>>

\* INSERT of one row: the primary key on uuid rejects a second row with the
\* same uuid.  The table is kept as the number of rows per uuid.
RowRejected(rows, r) == rows[r] > 0
InsertRow(rows, r) == [rows EXCEPT ![r] = @ + 1]

RECURSIVE InsertRows(_, _)
InsertRows(rows, ops) ==
  IF ops = <<>> THEN rows
  ELSE InsertRows(InsertRow(rows, Head(ops)), Tail(ops))

\* insertSync -> InsertOperation: one autocommitted INSERT on the single
\* connection; it can fail, and the error is returned to the handler.
InsertSync(p) ==
  /\ Alive /\ rq[p].pc = "insertsync"
  /\ ConnFree
  /\ \/ /\ ~RowRejected(store, p)
        /\ store' = InsertRow(store, p)
        /\ rq' = [rq EXCEPT ![p] = [@ EXCEPT !.pc = "done", !.how = "direct"]]
        /\ UNCHANGED faults
     \/ /\ faults < MaxFaults
        /\ faults' = faults + 1
        /\ rq' = [rq EXCEPT ![p] = [@ EXCEPT !.pc = "done", !.how = "failed"]]
        /\ UNCHANGED store
  /\ UNCHANGED <<frameVars, procVars, lockVars, chanVars, queueVars, CurrentBatch,
                 batchMutex, pr, aggOp, stopVars, gos, timeouts, statVars, batches>>

\* --- processBatch, run by any task that holds a batch ---------------------

\* After a failed attempt: sleep attempt x 1s and try again, or give up when
\* the attempts are used up.
AfterFailure(t) ==
  IF pr[t].attempt < RetryAttempts
  THEN [pr[t] EXCEPT !.pc = "try", !.attempt = @ + 1, !.done = "none"]
  ELSE [pr[t] EXCEPT !.pc = "ret", !.res = "err", !.done = "none"]

\* insertBatchWithContext: start the goroutine that runs
\* insertBatchTransaction and wait for it.
PB_Try(t) ==
  /\ Alive /\ pr[t].pc = "try"
  /\ gos' = gos \cup {[owner |-> t, attempt |-> pr[t].attempt,
                       batch |-> pr[t].batch, st |-> "begin", i |-> 1]}
  /\ pr' = [pr EXCEPT ![t].pc = "wait", ![t].done = "none"]
  /\ UNCHANGED <<frameVars, rq, procVars, lockVars, chanVars, queueVars,
                 CurrentBatch, batchMutex, aggOp, stopVars, store, faults,
                 timeouts, statVars, batches>>

\* The select of insertBatchWithContext receives the goroutine's result.
PB_Done(t) ==
  /\ Alive /\ pr[t].pc = "wait" /\ pr[t].done # "none"
  /\ IF pr[t].done = "ok"
     THEN /\ TotalBatches' = TotalBatches + 1
          /\ pr' = [pr EXCEPT ![t].pc = "ret", ![t].res = "ok", ![t].done = "none"]
     ELSE /\ pr' = [pr EXCEPT ![t] = AfterFailure(t)]
          /\ UNCHANGED TotalBatches
  /\ UNCHANGED <<frameVars, rq, procVars, lockVars, chanVars, queueVars,
                 CurrentBatch, batchMutex, aggOp, stopVars, dbVars,
                 TotalProcessed, TotalErrors, batches>>

\* The select of insertBatchWithContext takes ctx.Done(): the parent context
\* was cancelled.  The goroutine is left running.
PB_Cancelled(t) ==
  /\ Alive /\ pr[t].pc = "wait" /\ ctxDone
  /\ pr' = [pr EXCEPT ![t] = AfterFailure(t)]
  /\ UNCHANGED <<frameVars, rq, procVars, lockVars, chanVars, queueVars,
                 CurrentBatch, batchMutex, aggOp, stopVars, dbVars, statVars,
                 batches>>

\* The select of insertBatchWithContext takes ctx.Done(): the per-batch
\* timeout expired.  The goroutine is left running.
PB_Timeout(t) ==
  /\ Alive /\ pr[t].pc = "wait" /\ ~ctxDone
  /\ timeouts < MaxTimeouts
  /\ timeouts' = timeouts + 1
  /\ pr' = [pr EXCEPT ![t] = AfterFailure(t)]
  /\ UNCHANGED <<frameVars, rq, procVars, lockVars, chanVars, queueVars,
                 CurrentBatch, batchMutex, aggOp, stopVars, gos, store, faults,
                 statVars, batches>>

\* --- insertBatchTransaction, one goroutine per attempt -------------------

\* The goroutine returns: its result goes to the done channel, which only an
\* owner still waiting for this attempt will read.
Deliver(g, res) ==
  IF pr[g.owner].pc = "wait" /\ pr[g.owner].attempt = g.attempt
       /\ pr[g.owner].batch = g.batch
  THEN [pr EXCEPT ![g.owner].done = res]
  ELSE pr

\* DB.Begin and tx.Prepare: take the connection, or fail.
G_Begin(g) ==
  /\ Alive /\ g \in gos /\ g.st = "begin"
  /\ ConnFree
  /\ \/ /\ gos' = (gos \ {g}) \cup {[g EXCEPT !.st = "exec"]}
        /\ UNCHANGED <<pr, faults>>
     \/ /\ faults < MaxFaults
        /\ faults' = faults + 1
        /\ gos' = gos \ {g}
        /\ pr' = Deliver(g, "err")
  /\ UNCHANGED <<frameVars, rq, procVars, lockVars, chanVars, queueVars,
                 CurrentBatch, batchMutex, aggOp, stopVars, store, timeouts,
                 statVars, batches>>

\* The committed rows after a statement executed inside an open transaction:
\* unchanged, the row is held by the transaction until Commit.
TxExecAutocommit(rows, r) == InsertRow(rows, r)
TxExec(rows, r) == rows

\* stmt.Exec for the next record of the batch inside the transaction.  A
\* failure (a store fault, or a uuid already present) returns the error and
\* the deferred Rollback discards the statements executed so far.
G_Exec(g) ==
  /\ Alive /\ g \in gos /\ g.st = "exec" /\ g.i <= Len(g.batch)
  /\ \/ /\ ~RowRejected(store, g.batch[g.i])
        /\ gos' = (gos \ {g}) \cup {[g EXCEPT !.i = @ + 1]}
        /\ store' = TxExec(store, g.batch[g.i])
        /\ UNCHANGED <<pr, faults>>
     \/ /\ RowRejected(store, g.batch[g.i])
        /\ gos' = gos \ {g}
        /\ pr' = Deliver(g, "err")
        /\ UNCHANGED <<store, faults>>
     \/ /\ faults < MaxFaults
        /\ faults' = faults + 1
        /\ gos' = gos \ {g}
        /\ pr' = Deliver(g, "err")
        /\ UNCHANGED store
  /\ UNCHANGED <<frameVars, rq, procVars, lockVars, chanVars, queueVars,
                 CurrentBatch, batchMutex, aggOp, stopVars, timeouts, statVars,
                 batches>>

\* tx.Commit: every row of the batch becomes visible at once, or the commit
\* fails and none does.
G_Commit(g) ==
  /\ Alive /\ g \in gos /\ g.st = "exec" /\ g.i > Len(g.batch)
  /\ \/ /\ store' = InsertRows(store, g.batch)
        /\ pr' = Deliver(g, "ok")
        /\ UNCHANGED faults
     \/ /\ faults < MaxFaults
        /\ faults' = faults + 1
        /\ pr' = Deliver(g, "err")
        /\ UNCHANGED store
  /\ gos' = gos \ {g}
  /\ UNCHANGED <<frameVars, rq, procVars, lockVars, chanVars, queueVars,
                 CurrentBatch, batchMutex, aggOp, stopVars, timeouts, statVars,
                 batches>>

\* --- sendBatch, called with BatchMutex held --------------------------------

\* sendBatch for the non-empty batch cb by task t (aggregator, flusher or
\* the caller of Stop); next is t's position once sendBatch has returned and
\* the mutex is released.  AddBatch either queues the batch, reports
\* ErrQueueFull (the batch is then processed by t itself, mutex still held),
\* reports the cancelled context (the batch stays the current batch), or
\* panics on the closed queue.
SendBatch(t, cb, next, final) ==
  \E o \in SelectSend(batchClosed, Len(BatchQueue), MaxBatchQueue) :
    CASE o = "sent" ->
           /\ BatchQueue' = Append(BatchQueue, cb)
           /\ CurrentBatch' = <<>>
           /\ batchMutex' = None
           /\ batches' = batches \cup {cb}
           /\ pr' = [pr EXCEPT ![t] = [IdleTask EXCEPT !.pc = next]]
           /\ UNCHANGED crashed
      [] o = "full" ->
           /\ CurrentBatch' = cb
           /\ batchMutex' = t
           /\ batches' = batches \cup {cb}
           /\ pr' = [pr EXCEPT ![t] = [IdleTask EXCEPT !.pc = "try", !.batch = cb,
                                                       !.attempt = 1, !.final = final]]
           /\ UNCHANGED <<BatchQueue, crashed>>
      [] o = "ctx" ->
           /\ CurrentBatch' = cb
           /\ batchMutex' = None
           /\ pr' = [pr EXCEPT ![t] = [IdleTask EXCEPT !.pc = next]]
           /\ UNCHANGED <<BatchQueue, batches, crashed>>
      [] OTHER ->
           /\ crashed' = TRUE
           /\ CurrentBatch' = cb
           /\ UNCHANGED <<BatchQueue, batchMutex, batches, pr>>

\* sendBatch after its synchronous processBatch returned (the error is only
\* logged): task t, the aggregator or the flusher, starts a new current batch
\* and releases the mutex.
SendBatch_Ret(t) ==
  /\ Alive /\ pr[t].pc = "ret" /\ batchMutex = t
  /\ CurrentBatch' = <<>>
  /\ batchMutex' = None
  /\ pr' = [pr EXCEPT ![t] = [IdleTask EXCEPT
                                !.pc = IF pr[t].final THEN "exited" ELSE "idle"]]
  /\ UNCHANGED <<frameVars, rq, procVars, lockVars, chanVars, InputQueue,
                 BatchQueue, ResultQueue, aggOp, stopVars, dbVars, statVars,
                 batches>>

\* --- batchAggregator ------------------------------------------------------

\* The aggregator receives a record from InputQueue.
Agg_Recv ==
  /\ Alive /\ pr["agg"].pc = "idle" /\ aggOp = 0
  /\ InputQueue # <<>>
  /\ aggOp' = Head(InputQueue)
  /\ InputQueue' = Tail(InputQueue)
  /\ pr' = [pr EXCEPT !["agg"].pc = "lock"]
  /\ UNCHANGED <<frameVars, rq, procVars, lockVars, chanVars, BatchQueue,
                 ResultQueue, CurrentBatch, batchMutex, stopVars, dbVars, statVars,
                 batches>>

\* The size at which the aggregator hands the current batch off.
BatchIsFull(cb) == Len(cb) >= BatchSize

\* Under BatchMutex: append the record; a full batch is sent.
Agg_Append ==
  /\ Alive /\ pr["agg"].pc = "lock" /\ batchMutex = None
  /\ LET cb == Append(CurrentBatch, aggOp) IN
       IF BatchIsFull(cb)
       THEN SendBatch("agg", cb, "idle", FALSE)
       ELSE /\ CurrentBatch' = cb
            /\ pr' = [pr EXCEPT !["agg"].pc = "idle"]
            /\ UNCHANGED <<BatchQueue, batchMutex, batches, crashed>>
  /\ aggOp' = 0
  /\ UNCHANGED <<frameVars, rq, accepting, exited, lockVars, chanVars, InputQueue,
                 ResultQueue, stopVars, dbVars, statVars>>

\* The aggregator leaves its loop (context cancelled, or InputQueue closed
\* and drained): flushCurrentBatch, then return.
Agg_Exit ==
  /\ Alive /\ pr["agg"].pc = "idle" /\ batchMutex = None
  /\ ctxDone \/ (inputClosed /\ InputQueue = <<>>)
  /\ IF CurrentBatch # <<>>
     THEN SendBatch("agg", CurrentBatch, "exited", TRUE)
     ELSE /\ pr' = [pr EXCEPT !["agg"].pc = "exited"]
          /\ UNCHANGED <<BatchQueue, CurrentBatch, batchMutex, batches, crashed>>
  /\ UNCHANGED <<frameVars, rq, accepting, exited, lockVars, chanVars, InputQueue,
                 ResultQueue, aggOp, stopVars, dbVars, statVars>>

\* --- autoFlush ------------------------------------------------------------

\* FlushTicker ticks until BatchManager.Stop calls FlushTicker.Stop, which
\* it does after QueueManager.Stop has returned.
TickerRunning ==
  stopPc \in {"none", "cancel", "closeInput", "closeBatch", "closeResult"}

\* A flusher that waits for the batch to fill.
FlushDueWhenFull(cb) == Len(cb) >= BatchSize
\* flushCurrentBatch: the test CurrentBatch.Size > 0.
FlushDue(cb) == Len(cb) > 0

\* A tick of FlushTicker: flushCurrentBatch sends a non-empty current batch.
Flush_Tick ==
  /\ Alive /\ pr["flush"].pc = "idle" /\ batchMutex = None
  /\ TickerRunning
  /\ FlushDue(CurrentBatch)
  /\ SendBatch("flush", CurrentBatch, "idle", FALSE)
  /\ UNCHANGED <<frameVars, rq, accepting, exited, lockVars, chanVars, InputQueue,
                 ResultQueue, aggOp, stopVars, dbVars, statVars>>

Flush_Exit ==
  /\ Alive /\ pr["flush"].pc = "idle" /\ ctxDone
  /\ pr' = [pr EXCEPT !["flush"].pc = "exited"]
  /\ UNCHANGED <<frameVars, rq, procVars, lockVars, chanVars, queueVars,
                 CurrentBatch, batchMutex, aggOp, stopVars, dbVars, statVars,
                 batches>>

\* --- batchWorker ----------------------------------------------------------

\* A worker receives a batch from BatchQueue and starts processBatch.
W_Recv(w) ==
  /\ Alive /\ pr[w].pc = "idle"
  /\ BatchQueue # <<>>
  /\ pr' = [pr EXCEPT ![w] = [IdleTask EXCEPT !.pc = "try", !.attempt = 1,
                                             !.batch = Head(BatchQueue)]]
  /\ BatchQueue' = Tail(BatchQueue)
  /\ UNCHANGED <<frameVars, rq, procVars, lockVars, chanVars, InputQueue,
                 ResultQueue, CurrentBatch, batchMutex, aggOp, stopVars, dbVars,
                 statVars, batches>>

\* A worker leaves its loop: context cancelled, or BatchQueue closed and
\* drained.
W_Exit(w) ==
  /\ Alive /\ pr[w].pc = "idle"
  /\ ctxDone \/ (batchClosed /\ BatchQueue = <<>>)
  /\ pr' = [pr EXCEPT ![w].pc = "exited"]
  /\ UNCHANGED <<frameVars, rq, procVars, lockVars, chanVars, queueVars,
                 CurrentBatch, batchMutex, aggOp, stopVars, dbVars, statVars,
                 batches>>

\* After processBatch: count the outcome and send it to ResultQueue (a full
\* queue or a cancelled context is logged; a closed queue can panic).
W_Ret(w) ==
  /\ Alive /\ pr[w].pc = "ret"
  /\ IF pr[w].res = "err"
     THEN /\ TotalErrors' = TotalErrors + 1
          /\ UNCHANGED TotalProcessed
     ELSE /\ TotalProcessed' = TotalProcessed + Len(pr[w].batch)
          /\ UNCHANGED TotalErrors
  /\ \E o \in SelectSend(resultClosed, Len(ResultQueue), MaxBatchQueue) :
       CASE o = "sent" ->
              /\ ResultQueue' = Append(ResultQueue, pr[w].res)
              /\ UNCHANGED crashed
         [] o = "panic" ->
              /\ crashed' = TRUE
              /\ UNCHANGED ResultQueue
         [] OTHER ->
              UNCHANGED <<ResultQueue, crashed>>
  /\ pr' = [pr EXCEPT ![w] = IdleTask]
  /\ UNCHANGED <<frameVars, rq, accepting, exited, lockVars, chanVars, InputQueue,
                 BatchQueue, CurrentBatch, batchMutex, aggOp, stopVars, dbVars,
                 TotalBatches, batches>>

\* --- BatchManager.Stop ----------------------------------------------------

\* The records the batcher holds: in the current batch, on the input queue
\* and in the batches on the batch queue.
RecordsOf(q) == {q[i] : i \in 1..Len(q)}
Held ==
  RecordsOf(CurrentBatch) \cup RecordsOf(InputQueue)
    \cup UNION {RecordsOf(BatchQueue[i]) : i \in 1..Len(BatchQueue)}

\* Stop takes bm.Mutex for its whole duration; not running returns at once.
Stop_Begin ==
  /\ Alive /\ stopPc = "none" /\ ~bmLocked
  /\ IF bmRunning
     THEN /\ bmLocked' = TRUE
          /\ stopPc' = "cancel"
          /\ heldAtStop' = Held
     ELSE /\ stopPc' = "done"
          /\ UNCHANGED <<bmLocked, heldAtStop>>
  /\ UNCHANGED <<frameVars, rq, procVars, bmRunning, qmRunning, qmLocked, chanVars,
                 queueVars, CurrentBatch, batchMutex, pr, aggOp, dbVars, statVars,
                 batches>>

\* QueueManager.Stop under qm.Mutex: cancel the context ...
Stop_Cancel ==
  /\ Alive /\ stopPc = "cancel"
  /\ qmLocked' = TRUE
  /\ ctxDone' = TRUE
  /\ stopPc' = "closeInput"
  /\ UNCHANGED <<heldAtStop, frameVars, rq, procVars, bmRunning, bmLocked, qmRunning,
                 inputClosed, batchClosed, resultClosed, queueVars, CurrentBatch,
                 batchMutex, pr, aggOp, dbVars, statVars, batches>>

\* ... close(InputQueue) ...
Stop_CloseInput ==
  /\ Alive /\ stopPc = "closeInput"
  /\ inputClosed' = TRUE
  /\ stopPc' = "closeBatch"
  /\ UNCHANGED <<heldAtStop, frameVars, rq, procVars, lockVars, ctxDone, batchClosed,
                 resultClosed, queueVars, CurrentBatch, batchMutex, pr, aggOp,
                 dbVars, statVars, batches>>

\* ... close(BatchQueue) ...
Stop_CloseBatch ==
  /\ Alive /\ stopPc = "closeBatch"
  /\ batchClosed' = TRUE
  /\ stopPc' = "closeResult"
  /\ UNCHANGED <<heldAtStop, frameVars, rq, procVars, lockVars, ctxDone, inputClosed,
                 resultClosed, queueVars, CurrentBatch, batchMutex, pr, aggOp,
                 dbVars, statVars, batches>>

\* ... close(ResultQueue), Running = false; then FlushTicker.Stop.
Stop_CloseResult ==
  /\ Alive /\ stopPc = "closeResult"
  /\ resultClosed' = TRUE
  /\ qmRunning' = FALSE
  /\ qmLocked' = FALSE
  /\ stopPc' = "flush"
  /\ UNCHANGED <<heldAtStop, frameVars, rq, procVars, bmRunning, bmLocked, ctxDone,
                 inputClosed, batchClosed, queueVars, CurrentBatch, batchMutex, pr,
                 aggOp, dbVars, statVars, batches>>

\* flushCurrentBatch by the caller of Stop, after the queues were closed:
\* AddBatch can only report the cancelled context or panic, so the caller of
\* Stop never processes a batch itself.
Stop_Flush ==
  /\ Alive /\ stopPc = "flush" /\ pr["stop"].pc = "idle" /\ batchMutex = None
  /\ IF CurrentBatch # <<>>
     THEN SendBatch("stop", CurrentBatch, "idle", FALSE)
     ELSE UNCHANGED <<BatchQueue, CurrentBatch, batchMutex, batches, crashed, pr>>
  /\ stopPc' = "wait"
  /\ UNCHANGED <<heldAtStop, frameVars, rq, accepting, exited, lockVars, chanVars, InputQueue,
                 ResultQueue, aggOp, dbVars, statVars>>

\* WaitGroup.Wait: the aggregator, the flusher and every worker returned;
\* then Running = false and the mutex is released.
Stop_Wait ==
  /\ Alive /\ stopPc = "wait" /\ pr["stop"].pc = "idle"
  /\ \A t \in Workers \cup {"agg", "flush"} : pr[t].pc = "exited"
  /\ bmRunning' = FALSE
  /\ bmLocked' = FALSE
  /\ stopPc' = "done"
  /\ UNCHANGED <<heldAtStop, frameVars, rq, procVars, qmRunning, qmLocked, chanVars, queueVars,
                 CurrentBatch, batchMutex, pr, aggOp, dbVars, statVars, batches>>

\* --- process shutdown (src/main.go, Manager.Stop) --------------------------

\* SIGINT/SIGTERM: Manager.Stop shuts the listeners down; no new request is
\* accepted.
Shutdown_Begin ==
  /\ Alive /\ accepting
  /\ accepting' = FALSE
  /\ UNCHANGED <<frameVars, rq, exited, crashed, batchVars>>

\* http.Server.Shutdown has waited for the requests in flight, wg.Wait has
\* returned and main returns.  Manager.Stop stops no BatchManager.
Shutdown_Exit ==
  /\ Alive /\ ~accepting
  /\ \A p \in Requests : rq[p].pc \in {"new", "done"}
  /\ exited' = TRUE
  /\ UNCHANGED <<frameVars, rq, accepting, crashed, batchVars>>

\* ------------------------------------------------------------------------
\* Listener supervisor (src/internal/server/server.go)
\* ------------------------------------------------------------------------
Names == {"alpha", "beta"}
Ports == {9000, 9001, 9002}

\* A descriptor file <name>.yml as ReloadConfig and the search for the
\* server's entry see it: the listen port it declares for the server called
\* name, 0 when the file is missing or invalid or has no such server.
Declared == Ports \cup {0}

\* The tree the process was started with: alpha on 9000, beta on 9001.
InitialTree == [n \in Names |-> IF n = "alpha" THEN 9000 ELSE 9001]

\* m.servers after CreateServers and Start: per port the server whose
\* listener is registered there, "none" for no entry.
InitialServers ==
  [port \in Ports |-> IF port = 9000 THEN "alpha"
                      ELSE IF port = 9001 THEN "beta" ELSE "none"]

NoRestart ==
  [pc |-> "idle", name |-> "none", count |-> 0, attempt |-> 0, oldPort |-> 0,
   newPort |-> 0, wait |-> 0,
   targetPort |-> 0, before |-> InitialServers, declared |-> {}]

\* No PUT /api/mock/config yet.
NoPut == [name |-> "none", json |-> FALSE, listen |-> 0, status |-> 0,
          written |-> FALSE, notify |-> "none"]

\* main has loaded its descriptors and created its servers.
NotLoaded == [pc |-> "new", configs |-> <<>>, next |-> 1]
StartupDone == [pc |-> "started", configs |-> <<>>, next |-> 1]
NoCreate == [tree |-> <<>>, err |-> FALSE]

\* A *Server: its port, its httpServer field (nil until Server.Start
\* assigns it, closed once Shutdown was called on it) and the goroutine that
\* runs Server.Start for it.
ListenerIds == 1..(NumListeners + MaxRespawns)
ListenPorts == {9000, 9001, 9002}
NoListener == [port |-> 0, http |-> "nil", task |-> "none"]
NewListener(port) == [port |-> port, http |-> "nil", task |-> "none"]

\* The RestartManager once StartAPIServer has started it: running is set,
\* its context is not cancelled (done), run waits in its select and holds
\* no signal.
NoConsumer ==
  [pc |-> "select", name |-> "none", attempt |-> 0, clock |-> 0, log |-> "none",
   running |-> TRUE, done |-> FALSE]

\* No ConfigWatcher watches the restart channel.
NoWatcher == [pc |-> "none", cur |-> 0, n |-> 0, handlers |-> {}, closed |-> FALSE, log |-> "none"]

\* randomCacheMutex when no template execution <<p, i>> holds it.
Unlocked == <<0, 0>>

\* The listener tasks are left out: no *Server, nothing to join; the cache
\* mutex is free and no map access is under way.
TasksIdle ==
  /\ randomCacheMutex = Unlocked /\ acc = {}
  /\ lst = [id \in ListenerIds |-> NoListener]
  /\ reg = {}
  /\ wg = 0
  /\ mgr = [pc |-> "none", todo |-> {}]

RestartIdle ==
  /\ TasksIdle
  /\ restartChan = <<>>
  /\ put = NoPut
  /\ consumer = NoConsumer /\ watcher = NoWatcher
  /\ dir = <<>>
  /\ loaded = StartupDone
  /\ create = NoCreate
  /\ descriptors = InitialTree
  /\ configs = InitialTree
  /\ servers = InitialServers
  /\ foreign = {}
  /\ restart = NoRestart
  /\ edits = 0

\* isPortAvailable: net.Listen succeeds when neither a listener of this
\* process nor another process holds the port.
isPortAvailable(port) == servers[port] = "none" /\ port \notin foreign

\* The control plane or the operator rewrites <name>.yml.
WriteDescriptor(n, d) ==
  /\ edits < MaxEdits
  /\ descriptors[n] # d
  /\ descriptors' = [descriptors EXCEPT ![n] = d]
  /\ edits' = edits + 1
  /\ UNCHANGED <<configs, servers, foreign, restart, processVars>>

\* Another process binds or releases a port.
ForeignBind(port) ==
  /\ Cardinality(foreign) < MaxForeign
  /\ isPortAvailable(port)
  /\ foreign' = foreign \cup {port}
  /\ UNCHANGED <<descriptors, configs, servers, restart, edits, processVars>>

ForeignRelease(port) ==
  /\ port \in foreign
  /\ foreign' = foreign \ {port}
  /\ UNCHANGED <<descriptors, configs, servers, restart, edits, processVars>>

\* RestartSpecificServer(name) entered: the first attempt is about to run.
Started(n) ==
  [pc |-> "locate", name |-> n, count |-> restart.count + 1,
   attempt |-> 1, wait |-> 0,
   oldPort |-> configs[n], newPort |-> 0, targetPort |-> 0,
   before |-> servers,
   declared |-> {configs[m] : m \in Names \ {n}}]

\* RestartSpecificServer(name) is called by the restart consumer, one restart
\* at a time.
Restart_Begin(n) ==
  /\ restart.pc \in {"idle", "ok", "failed"}
  /\ restart.count < MaxRestarts
  /\ restart' = Started(n)
  /\ UNCHANGED <<descriptors, configs, servers, foreign, edits, processVars>>

\* After a failed attempt: sleep attempt seconds and try again, or give up
\* after the third and return the error.
AttemptFailed(r) ==
  IF r.attempt < 3
  THEN [r EXCEPT !.pc = "locate", !.attempt = @ + 1, !.wait = r.attempt]
  ELSE [r EXCEPT !.pc = "failed"]

\* The listener restartServerAttempt stops: the one registered on the new
\* port if there is one, else the one on the port the stored configs hold
\* for the name; 0 for none.
TargetPort(n, newPort) ==
  IF servers[newPort] # "none" THEN newPort
  ELSE IF configs[n] # newPort /\ servers[configs[n]] # "none" THEN configs[n]
  ELSE 0

\* restartServerAttempt, first half: reload the descriptor, find the
\* server's entry, locate the running listener, stop it and delete it from
\* m.servers.
Restart_Locate ==
  /\ restart.pc = "locate"
  /\ LET n == restart.name
         newPort == descriptors[n]
     IN IF newPort = 0
        THEN /\ restart' = AttemptFailed(restart)
             /\ UNCHANGED servers
        ELSE LET targetPort == TargetPort(n, newPort) IN
             /\ servers' = IF targetPort = 0 THEN servers
                           ELSE [servers EXCEPT ![targetPort] = "none"]
             /\ restart' = [restart EXCEPT !.pc = "bind", !.newPort = newPort,
                                           !.targetPort = targetPort]
  /\ UNCHANGED <<descriptors, configs, foreign, edits, processVars>>

\* restartServerAttempt, second half: wait for the port, isPortAvailable,
\* CreateServer, start the listener, updateStoredConfig.
Restart_Bind ==
  /\ restart.pc = "bind"
  /\ IF isPortAvailable(restart.newPort)
     THEN /\ servers' = [servers EXCEPT ![restart.newPort] = restart.name]
          /\ configs' = [configs EXCEPT ![restart.name] = restart.newPort]
          /\ restart' = [restart EXCEPT !.pc = "ok"]
     ELSE /\ restart' = AttemptFailed(restart)
          /\ UNCHANGED <<servers, configs>>
  /\ UNCHANGED <<descriptors, foreign, edits, processVars>>

\* ------------------------------------------------------------------------
\* Request pipeline: the handler (src/internal/handler/handler.go)
\* ------------------------------------------------------------------------

\* The rolls explored for a request: every axis rolls low, or every axis
\* rolls high.
HandlerRolls == {<<0, 0, 0>>, <<99, 99, 99>>}

\* Requests the handler has not returned from.
InFlight == {p \in Requests : rq[p].pc \notin {"new", "done"}}

\* Handler.HandleRequest for request p up to its call of
\* insertTransactionToDB: chaos, schema validation, fan-out goroutines
\* started, status, response template, body.
HandleRequest(p) ==
  /\ Alive /\ accepting /\ rq[p].pc = "new"
  /\ ~loc.StaticFilesDir
  /\ (p > 1 => rq[p-1].pc # "new")
  /\ Cardinality(InFlight) < clients
  /\ \E rolls \in HandlerRolls, v \in Values, order \in RangeOrders(loc.Headers) :
       LET chaos == ApplyChaos(NewWriter, loc.ChaosInjection, rolls)
           w0 == chaos.w
           hdr1 == DefaultContentType(SetHeaders(<<>>, loc.Headers, order))
       IN
       IF chaos.ret
       THEN /\ rq' = [rq EXCEPT ![p] = [@ EXCEPT !.pc = "capture", !.w = w0,
                                                  !.short = TRUE]]
            /\ UNCHANGED randomCache
       ELSE IF loc.Schema /\ validateRequestBody(inb.body)
       THEN /\ rq' = [rq EXCEPT ![p] =
                        [@ EXCEPT !.pc = "capture",
                                  !.hdr = writeContentType(<<>>, JSONContentType),
                                  !.w = Render(w0, 400, "schema error")]]
            /\ UNCHANGED randomCache
       ELSE
         LET w1 == WriteHeader(w0, loc.StatusCode)
             spawned == 1..Len(loc.Async)
         IN
         IF loc.Response = ""
         THEN /\ rq' = [rq EXCEPT ![p] = [@ EXCEPT !.pc = "capture", !.w = w1,
                                                    !.hdr = hdr1,
                                                    !.spawned = spawned]]
              /\ UNCHANGED randomCache
         ELSE
           LET t == processResponseTemplate(p, 1, loc.Response, randomCache, v,
                                            rq[p].body) IN
             /\ randomCache' = t.cache
             /\ IF t.err
                THEN rq' = [rq EXCEPT ![p] =
                              [@ EXCEPT !.pc = "capture", !.spawned = spawned,
                                        !.hdr = writeContentType(hdr1, JSONContentType),
                                        !.w = Render(w1, 500, "template error")]]
                ELSE rq' = [rq EXCEPT ![p] =
                              [@ EXCEPT !.pc = "capture", !.spawned = spawned,
                                        !.resp = t.out,
                                        !.hdr = writeContentType(hdr1, PlainContentType),
                                        !.w = Render(w1, loc.StatusCode, t.out)]]
  /\ UNCHANGED <<outerVars, procVars, batchVars>>

\* handleAsyncCall for fan-out entry i of request p, as far as its body: a
\* goroutine the handler started and does not wait for.
AsyncCall(p, i) ==
  /\ Alive /\ i \in rq[p].spawned
  /\ \E v \in Values :
       LET t == processResponseTemplate(p, 2 + i, loc.Async[i].Body,
                                        randomCache, v, rq[p].body)
       IN /\ randomCache' = t.cache
          /\ rq' = [rq EXCEPT ![p] =
                      [@ EXCEPT !.spawned = @ \ {i},
                                !.fan = [@ EXCEPT ![i] =
                                           IF t.err THEN loc.Async[i].Body
                                           ELSE t.out]]]
  /\ UNCHANGED <<outerVars, procVars, batchVars>>

\* A location with static_files_dir is mounted with Router.Static: gin's
\* file handler answers, Handler.HandleRequest is never called.
ServeStatic(p) ==
  /\ Alive /\ accepting /\ rq[p].pc = "new"
  /\ loc.StaticFilesDir
  /\ (p > 1 => rq[p-1].pc # "new")
  /\ \E code \in {200, 404} :
       rq' = [rq EXCEPT ![p] = [@ EXCEPT !.pc = "done",
                                          !.w = Render(NewWriter, code, "file")]]
  /\ UNCHANGED <<frameVars, procVars, batchVars>>

\* One server with one route of any explored shape, the clients sending one
\* request after the other; the batcher is started.
InitPipeline ==
  /\ ChaosIdle
  /\ RestartIdle
  /\ loc \in Locations /\ inb \in Inbounds /\ clients = 1
  /\ randomCache = <<>>
  /\ rq = [p \in Requests |-> NewRequest]
  /\ ProcInit
  /\ BatchInit
  /\ WorkerIdle

NextPipeline ==
  \/ \E p \in Requests : HandleRequest(p)
  \/ \E p \in Requests : ServeStatic(p)
  \/ \E p \in Requests : \E i \in rq[p].spawned : AsyncCall(p, i)
  \/ \E p \in Requests : Capture(p)
  \/ \E p \in Requests : InsertSync(p)

SpecPipeline == InitPipeline /\ [][NextPipeline]_vars


\* ------------------------------------------------------------------------
\* The handler and its fan-out goroutines, step by step
\* ------------------------------------------------------------------------
\* `go h.handleAsyncCall(&v, c)` hands the goroutine the handler's own
\* gin.Context: handler and goroutine read and replace the same
\* c.Request.Body without synchronisation.

\* Locations with fan-out: the response prints text, a request field or a
\* cached random value; the fan-out entry has no body or a body template,
\* and retries or not.
FanOutRetries == {0, 1}
FanOutLocations ==
  [StatusCode : {201}, Response : {"plain", FieldTemplate, "{{randInt 1 9}}"},
   Schema : {FALSE}, StaticFilesDir : {FALSE}, ChaosInjection : {NilChaos},
   Async : {<<>>} \cup {<<[Body |-> b, Retries |-> r]>> :
                          b \in {"", FieldTemplate}, r \in FanOutRetries},
   Headers : {NilHeaders}]

\* What client.Do returns for a fan-out call.
CallOutcomes == {"ok", "error", "timeout"}

\* HandleRequest up to c.Status: chaos, schema validation, the goroutines
\* started, the status set; a response without template variables is
\* written at once.
Handler_Begin(p) ==
  /\ Alive /\ accepting /\ rq[p].pc = "new"
  /\ ~loc.StaticFilesDir
  /\ (p > 1 => rq[p-1].pc # "new")
  /\ Cardinality(InFlight) < clients
  /\ \E rolls \in HandlerRolls, order \in RangeOrders(loc.Headers) :
       LET chaos == ApplyChaos(NewWriter, loc.ChaosInjection, rolls)
           w0 == chaos.w
           hdr1 == DefaultContentType(SetHeaders(<<>>, loc.Headers, order))
       IN
       IF chaos.ret
       THEN rq' = [rq EXCEPT ![p] = [@ EXCEPT !.pc = "capture", !.w = w0,
                                               !.short = TRUE]]
       ELSE IF loc.Schema /\ validateRequestBody(rq[p].body)
       THEN rq' = [rq EXCEPT ![p] =
                     [@ EXCEPT !.pc = "capture",
                               !.hdr = writeContentType(<<>>, JSONContentType),
                               !.w = Render(w0, 400, "schema error")]]
       ELSE
         LET w1 == WriteHeader(w0, loc.StatusCode)
             started == [i \in 1..Len(loc.Async) |-> [NoCall EXCEPT !.pc = "start"]]
         IN
         IF loc.Response = ""
         THEN rq' = [rq EXCEPT ![p] = [@ EXCEPT !.pc = "capture", !.w = w1,
                                                 !.hdr = hdr1,
                                                 !.call = started]]
         ELSE IF ~HasTemplateVars(loc.Response)
         THEN rq' = [rq EXCEPT ![p] =
                       [@ EXCEPT !.pc = "capture", !.call = started,
                                 !.resp = loc.Response,
                                 !.hdr = writeContentType(hdr1, PlainContentType),
                                 !.w = Render(w1, loc.StatusCode, loc.Response)]]
         ELSE rq' = [rq EXCEPT ![p] = [@ EXCEPT !.pc = "readbody", !.w = w1,
                                                 !.hdr = hdr1,
                                                 !.call = started]]
  /\ UNCHANGED <<frameVars, procVars, batchVars>>

\* processResponseTemplate, io.ReadAll(c.Request.Body): the handler takes
\* what the body still yields and leaves it drained.
Handler_ReadBody(p) ==
  /\ Alive /\ rq[p].pc = "readbody"
  /\ rq' = [rq EXCEPT ![p] = [@ EXCEPT !.pc = "render", !.data = rq[p].body,
                                        !.body = ""]]
  /\ UNCHANGED <<frameVars, procVars, batchVars>>

\* processResponseTemplate, the rest: the body is replaced by a reader over
\* the bytes read, the template is executed, and HandleRequest writes the
\* response.
Handler_Render(p) ==
  /\ Alive /\ rq[p].pc = "render"
  /\ \E v \in Values :
       LET t == processResponseTemplate(p, 1, loc.Response, randomCache, v,
                                        rq[p].data)
       IN /\ randomCache' = t.cache
          /\ IF t.err
             THEN rq' = [rq EXCEPT ![p] =
                           [@ EXCEPT !.pc = "capture", !.body = rq[p].data,
                                     !.w = Render(@, 500, "template error")]]
             ELSE rq' = [rq EXCEPT ![p] =
                           [@ EXCEPT !.pc = "capture", !.body = rq[p].data,
                                     !.resp = t.out,
                                     !.w = Render(@, loc.StatusCode, t.out)]]
  /\ UNCHANGED <<outerVars, procVars, batchVars>>

\* handleAsyncCall up to io.ReadAll in processResponseTemplate: a body
\* without template variables is sent as it is.
Go_Start(p, i) ==
  /\ Alive /\ rq[p].call[i].pc = "start"
  /\ IF HasTemplateVars(loc.Async[i].Body)
     THEN rq' = [rq EXCEPT ![p] =
                   [@ EXCEPT !.call[i] = [@ EXCEPT !.pc = "render",
                                                   !.data = rq[p].body],
                             !.body = ""]]
     ELSE rq' = [rq EXCEPT ![p] =
                   [@ EXCEPT !.call[i] = [@ EXCEPT !.pc = "call"],
                             !.fan[i] = loc.Async[i].Body]]
  /\ UNCHANGED <<frameVars, procVars, batchVars>>

\* handleAsyncCall: the body replaced by a reader over the bytes read, the
\* body template executed (on error the raw template is sent).
Go_Render(p, i) ==
  /\ Alive /\ rq[p].call[i].pc = "render"
  /\ \E v \in Values :
       LET t == processResponseTemplate(p, 2 + i, loc.Async[i].Body,
                                        randomCache, v, rq[p].call[i].data)
       IN /\ randomCache' = t.cache
          /\ rq' = [rq EXCEPT ![p] =
                      [@ EXCEPT !.call[i] = [@ EXCEPT !.pc = "call"],
                                !.body = rq[p].call[i].data,
                                !.fan[i] = IF t.err THEN loc.Async[i].Body
                                           ELSE t.out]]
  /\ UNCHANGED <<outerVars, procVars, batchVars>>

\* handleAsyncCall, `retries := *async.Retries + 1` (1 when Retries is nil,
\* which the descriptors explored write as 0).
AttemptLimit(async) == async.Retries + 1

\* handleAsyncCall, the loop `for i := 0; i < retries; i++`: one iteration
\* (client.Do; break on success; a sleep of retry_delay when another
\* iteration follows), or the exit when i has reached retries.
Go_Do(p, i) ==
  /\ Alive /\ rq[p].call[i].pc = "call"
  /\ LET retries == AttemptLimit(loc.Async[i]) IN
     IF rq[p].call[i].tries < retries
     THEN \E o \in CallOutcomes :
            rq' = [rq EXCEPT ![p].call[i] =
                     IF o = "ok"
                     THEN [@ EXCEPT !.pc = "handle", !.tries = @ + 1,
                                    !.result = "ok"]
                     ELSE [@ EXCEPT !.tries = @ + 1, !.result = o,
                                    !.waits = IF rq[p].call[i].tries < retries - 1
                                              THEN @ + 1 ELSE @]]
     ELSE rq' = [rq EXCEPT ![p].call[i].pc = "handle"]
  /\ UNCHANGED <<frameVars, procVars, batchVars>>

\* handleAsyncCall after the loop: the last error is logged and the
\* goroutine returns; otherwise `defer resp.Body.Close()` is evaluated,
\* which dereferences resp: a nil resp (no attempt was made) panics in the
\* goroutine and ends the process.
Go_Handle(p, i) ==
  /\ Alive /\ rq[p].call[i].pc = "handle"
  /\ IF rq[p].call[i].result \in {"error", "timeout"}
     THEN /\ rq' = [rq EXCEPT ![p].call[i].pc = "done"]
          /\ UNCHANGED procVars
     ELSE IF rq[p].call[i].tries = 0
     THEN /\ rq' = [rq EXCEPT ![p].call[i].pc = "panicked"]
          /\ crashed' = TRUE
          /\ UNCHANGED <<accepting, exited>>
     ELSE /\ rq' = [rq EXCEPT ![p].call[i].pc = "done"]
          /\ UNCHANGED procVars
  /\ UNCHANGED <<frameVars, batchVars>>

\* One route with a fan-out entry, the clients sending one request after the
\* other; the batcher is started.
InitFanOut ==
  /\ ChaosIdle
  /\ RestartIdle
  /\ loc \in FanOutLocations /\ inb \in [body : {"valid"}, txid : HeaderIds]
  /\ clients = 1
  /\ randomCache = <<>>
  /\ rq = [p \in Requests |-> NewRequest]
  /\ ProcInit
  /\ BatchInit
  /\ WorkerIdle

NextFanOut ==
  \/ \E p \in Requests : Handler_Begin(p)
  \/ \E p \in Requests : Handler_ReadBody(p)
  \/ \E p \in Requests : Handler_Render(p)
  \/ \E p \in Requests : \E i \in 1..Len(loc.Async) : Go_Start(p, i)
  \/ \E p \in Requests : \E i \in 1..Len(loc.Async) : Go_Render(p, i)
  \/ \E p \in Requests : \E i \in 1..Len(loc.Async) : Go_Do(p, i)
  \/ \E p \in Requests : \E i \in 1..Len(loc.Async) : Go_Handle(p, i)
  \/ \E p \in Requests : Capture(p)
  \/ \E p \in Requests : InsertSync(p)

SpecFanOut == InitFanOut /\ [][NextFanOut]_vars

\* Locations with one fan-out entry and the retries a descriptor can carry
\* (models.Async.Retries is an int: negative values parse).
RetryCounts == {0 - 1, 0, 1, 2}
RetryLocations ==
  [StatusCode : {201}, Response : {"plain"}, Schema : {FALSE},
   StaticFilesDir : {FALSE}, ChaosInjection : {NilChaos},
   Async : {<<[Body |-> "", Retries |-> r]>> : r \in RetryCounts},
   Headers : {NilHeaders}]

InitRetry ==
  /\ ChaosIdle
  /\ RestartIdle
  /\ loc \in RetryLocations /\ inb \in [body : {"valid"}, txid : HeaderIds]
  /\ clients = 1
  /\ randomCache = <<>>
  /\ rq = [p \in Requests |-> NewRequest]
  /\ ProcInit
  /\ BatchInit
  /\ WorkerIdle

NextRetry ==
  \/ \E p \in Requests : Handler_Begin(p)
  \/ \E p \in Requests : \E i \in 1..Len(loc.Async) : Go_Start(p, i)
  \/ \E p \in Requests : \E i \in 1..Len(loc.Async) : Go_Do(p, i)
  \/ \E p \in Requests : \E i \in 1..Len(loc.Async) : Go_Handle(p, i)
  \/ \E p \in Requests : Capture(p)
  \/ \E p \in Requests : InsertSync(p)

SpecRetry == InitRetry /\ [][NextRetry]_vars

\* ------------------------------------------------------------------------
\* A route without chaos, schema or fan-out
\* ------------------------------------------------------------------------
\* Locations with a status, a response and any explored headers block.
ResponseLocations ==
  [StatusCode : {200, 404}, Response : {"", "plain", "{{randInt 1 9}}"},
   Schema : {FALSE}, StaticFilesDir : {FALSE}, ChaosInjection : {NilChaos},
   Async : {<<>>}, Headers : HeaderMaps]

InitResponse ==
  /\ ChaosIdle
  /\ RestartIdle
  /\ loc \in ResponseLocations /\ inb \in Inbounds /\ clients = 1
  /\ randomCache = <<>>
  /\ rq = [p \in Requests |-> NewRequest]
  /\ ProcInit
  /\ BatchInit
  /\ WorkerIdle

NextResponse ==
  \/ \E p \in Requests : HandleRequest(p)
  \/ \E p \in Requests : Capture(p)
  \/ \E p \in Requests : InsertSync(p)

SpecResponse == InitResponse /\ [][NextResponse]_vars

\* ------------------------------------------------------------------------
\* Template execution and the random-value cache, access by access
\* (src/internal/handler/handler.go)
\* ------------------------------------------------------------------------
\* processResponseTemplate takes randomCacheMutex to find or create the
\* randomValues map of the transaction and releases it before the template
\* is executed; the helpers read and write that map during execution.

\* Locations whose response and fan-out body call helpers.
RenderLocations ==
  [StatusCode : {201}, Response : {"plain", "{{randInt 1 9}}"},
   Schema : {FALSE}, StaticFilesDir : {FALSE}, ChaosInjection : {NilChaos},
   Async : {<<>>} \cup {<<[Body |-> b, Retries |-> 0]>> :
                          b \in {"{{randInt 1 9}}", "{{randString 4}}"}},
   Headers : {NilHeaders}]

\* The template execution i of request p (0: the response, i > 0: the body
\* of fan-out entry i), the template it executes and whether it is due.
Renderings == {<<p, i>> : p \in Requests, i \in 0..1}
TemplateOf(p, i) == IF i = 0 THEN loc.Response ELSE loc.Async[i].Body
RenderDue(p, i) ==
  /\ i \in DOMAIN rq[p].ren
  /\ IF i = 0 THEN rq[p].pc = "render" ELSE rq[p].call[i].pc = "render"

\* transactionID: the X-Transaction-ID header, or a new uuid.
TransactionOf(p, i) ==
  IF inb.txid # 0 THEN inb.txid ELSE FreshId(p, IF i = 0 THEN 1 ELSE 2 + i)

\* What a template execution leaves alone besides the request, the cache,
\* its mutex and the accesses under way.
renderFrame == <<chaosVars, workerVars, restartVars, signalVars, startVars, taskVars, loc,
                 inb, clients, procVars, batchVars>>

\* Two accesses to the same randomValues map by different executions, at
\* least one of them a write.
Conflict(a, b) ==
  a.by # b.by /\ a.tx = b.tx /\ (a.mode = "write" \/ b.mode = "write")

\* randomCacheMutex.Lock() and the lookup under it: the map of the
\* transaction is taken from randomCache, or created and stored.
Tpl_Lock(p, i) ==
  /\ Alive /\ RenderDue(p, i) /\ rq[p].ren[i].pc = "idle"
  /\ randomCacheMutex = Unlocked
  /\ randomCacheMutex' = <<p, i>>
  /\ LET tx == TransactionOf(p, i) IN
       /\ randomCache' = IF tx \in DOMAIN randomCache THEN randomCache
                         ELSE (tx :> <<>>) @@ randomCache
       /\ rq' = [rq EXCEPT ![p].ren[i] = [@ EXCEPT !.pc = "locked", !.tx = tx]]
  /\ UNCHANGED <<renderFrame, acc>>

\* randomCacheMutex.Unlock(); template parsing and execution follow.
Tpl_Unlock(p, i) ==
  /\ Alive /\ i \in DOMAIN rq[p].ren /\ rq[p].ren[i].pc = "locked"
  /\ randomCacheMutex = <<p, i>>
  /\ randomCacheMutex' = Unlocked
  /\ rq' = [rq EXCEPT ![p].ren[i].pc = "exec"]
  /\ UNCHANGED <<renderFrame, acc, randomCache>>

\* A caching helper is called: `val, exists := randomValues[key]` begins.
Helper_Read(p, i) ==
  /\ Alive /\ i \in DOMAIN rq[p].ren /\ rq[p].ren[i].pc = "exec"
  /\ HelperOf(TemplateOf(p, i)) \in CachingHelpers
  /\ acc' = acc \cup {[by |-> <<p, i>>, tx |-> rq[p].ren[i].tx, mode |-> "read"]}
  /\ rq' = [rq EXCEPT ![p].ren[i].pc = "reading"]
  /\ UNCHANGED <<renderFrame, randomCacheMutex, randomCache>>

\* The lookup ends: the cached value is returned, or a value is generated.
Helper_ReadEnd(p, i) ==
  /\ Alive /\ i \in DOMAIN rq[p].ren /\ rq[p].ren[i].pc = "reading"
  /\ acc' = acc \ {[by |-> <<p, i>>, tx |-> rq[p].ren[i].tx, mode |-> "read"]}
  /\ LET randomValues == randomCache[rq[p].ren[i].tx]
         helper == HelperOf(TemplateOf(p, i))
     IN IF helper \in DOMAIN randomValues
        THEN rq' = [rq EXCEPT ![p].ren[i] =
                      [@ EXCEPT !.pc = "got", !.val = randomValues[helper]]]
        ELSE \E v \in Values :
               rq' = [rq EXCEPT ![p].ren[i] =
                        [@ EXCEPT !.pc = "generated", !.val = v]]
  /\ UNCHANGED <<renderFrame, randomCacheMutex, randomCache>>

\* `randomValues[key] = value` begins.
Helper_Write(p, i) ==
  /\ Alive /\ i \in DOMAIN rq[p].ren /\ rq[p].ren[i].pc = "generated"
  /\ acc' = acc \cup {[by |-> <<p, i>>, tx |-> rq[p].ren[i].tx, mode |-> "write"]}
  /\ rq' = [rq EXCEPT ![p].ren[i].pc = "writing"]
  /\ UNCHANGED <<renderFrame, randomCacheMutex, randomCache>>

\* The store ends: the value is in the map.
Helper_WriteEnd(p, i) ==
  /\ Alive /\ i \in DOMAIN rq[p].ren /\ rq[p].ren[i].pc = "writing"
  /\ acc' = acc \ {[by |-> <<p, i>>, tx |-> rq[p].ren[i].tx, mode |-> "write"]}
  /\ LET tx == rq[p].ren[i].tx
         helper == HelperOf(TemplateOf(p, i))
     IN randomCache' = [randomCache EXCEPT ![tx] =
                          (helper :> rq[p].ren[i].val) @@ @]
  /\ rq' = [rq EXCEPT ![p].ren[i].pc = "got"]
  /\ UNCHANGED <<renderFrame, randomCacheMutex>>

\* The Go runtime finds a map read or written while another goroutine
\* writes it: fatal error, the process ends.
MapFault ==
  /\ Alive
  /\ \E a \in acc, b \in acc : Conflict(a, b)
  /\ crashed' = TRUE
  /\ UNCHANGED <<chaosVars, workerVars, restartVars, signalVars, startVars, taskVars, loc,
                 inb, clients, accepting, exited, batchVars, raceVars,
                 randomCache, rq>>

\* The execution ends: the handler writes the response, the goroutine has
\* the body of its call.  The request body is what the execution read.
Tpl_Finish(p, i) ==
  /\ Alive /\ i \in DOMAIN rq[p].ren
  /\ \/ rq[p].ren[i].pc = "got"
     \/ /\ rq[p].ren[i].pc = "exec"
        /\ HelperOf(TemplateOf(p, i)) \notin CachingHelpers
  /\ \E v \in Values :
       LET out == IF rq[p].ren[i].pc = "got" THEN rq[p].ren[i].val ELSE v IN
       IF i = 0
       THEN rq' = [rq EXCEPT ![p] =
                     [@ EXCEPT !.ren[0].pc = "done", !.pc = "capture",
                               !.body = rq[p].data, !.resp = out,
                               !.hdr = writeContentType(@, PlainContentType),
                               !.w = Render(@, loc.StatusCode, out)]]
       ELSE rq' = [rq EXCEPT ![p] =
                     [@ EXCEPT !.ren[i].pc = "done",
                               !.call[i] = [@ EXCEPT !.pc = "call"],
                               !.body = rq[p].call[i].data,
                               !.fan[i] = out]]
  /\ UNCHANGED <<renderFrame, raceVars, randomCache>>

\* One route whose response and fan-out body are templates; the handler and
\* its goroutine run concurrently up to the response and the call.
InitRender ==
  /\ ChaosIdle
  /\ RestartIdle
  /\ loc \in RenderLocations /\ inb \in [body : {"valid"}, txid : HeaderIds]
  /\ clients = 1
  /\ randomCache = <<>>
  /\ rq = [p \in Requests |-> NewRequest]
  /\ ProcInit
  /\ BatchInit
  /\ WorkerIdle

NextRender ==
  \/ \E p \in Requests : Handler_Begin(p)
  \/ \E p \in Requests : Handler_ReadBody(p)
  \/ \E p \in Requests : \E i \in 1..Len(loc.Async) : Go_Start(p, i)
  \/ \E r \in Renderings : Tpl_Lock(r[1], r[2])
  \/ \E r \in Renderings : Tpl_Unlock(r[1], r[2])
  \/ \E r \in Renderings : Helper_Read(r[1], r[2])
  \/ \E r \in Renderings : Helper_ReadEnd(r[1], r[2])
  \/ \E r \in Renderings : Helper_Write(r[1], r[2])
  \/ \E r \in Renderings : Helper_WriteEnd(r[1], r[2])
  \/ \E r \in Renderings : Tpl_Finish(r[1], r[2])
  \/ MapFault
  \/ \E p \in Requests : \E i \in 1..Len(loc.Async) : Go_Do(p, i)
  \/ \E p \in Requests : \E i \in 1..Len(loc.Async) : Go_Handle(p, i)

SpecRender == InitRender /\ [][NextRender]_vars
\* One server with one plain route, every client sending concurrently.
InitBatch ==
  /\ ChaosIdle
  /\ RestartIdle
  /\ loc = PlainLocation /\ inb = PlainInbound /\ clients = NumRequests
  /\ randomCache = <<>>
  /\ rq = [p \in Requests |-> NewRequest]
  /\ ProcInit
  /\ BatchInit
  /\ WorkerIdle

NextBatch ==
  \/ \E p \in Requests : HandleRequest(p)
  \/ \E p \in Requests : Capture(p)
  \/ \E p \in Requests : InsertSync(p)
  \/ \E t \in Tasks : PB_Try(t)
  \/ \E t \in Tasks : PB_Done(t)
  \/ \E t \in Tasks : PB_Timeout(t)
  \/ \E g \in gos : G_Begin(g)
  \/ \E g \in gos : G_Exec(g)
  \/ \E g \in gos : G_Commit(g)
  \/ Agg_Recv
  \/ Agg_Append
  \/ Flush_Tick
  \/ \E t \in {"agg", "flush"} : SendBatch_Ret(t)
  \/ \E w \in Workers : W_Recv(w)
  \/ \E w \in Workers : W_Ret(w)
  \/ Shutdown_Begin
  \/ Shutdown_Exit

SpecBatch == InitBatch /\ [][NextBatch]_vars

\* The scheduling of the batcher's goroutines: the aggregator, the flusher
\* (its ticker keeps ticking), the writer workers and the transaction
\* goroutines each take their next step when it stays possible.  The
\* per-batch timeout and the requests are left to the environment.
FairBatch ==
  /\ WF_vars(Agg_Recv)
  /\ WF_vars(Agg_Append)
  /\ WF_vars(Flush_Tick)
  /\ \A t \in {"agg", "flush"} : WF_vars(SendBatch_Ret(t))
  /\ \A t \in Tasks : WF_vars(PB_Try(t)) /\ WF_vars(PB_Done(t))
  /\ \A w \in Workers : WF_vars(W_Recv(w)) /\ WF_vars(W_Ret(w))
  /\ WF_vars(\E g \in gos : G_Begin(g) \/ G_Exec(g) \/ G_Commit(g))

SpecBatchLive == SpecBatch /\ FairBatch

\* The batcher with BatchManager.Stop called at any moment, the capture
\* taken test by test.
NextStop ==
  \/ \E p \in Requests : HandleRequest(p)
  \/ \E p \in Requests : CaptureIsRunning(p)
  \/ \E p \in Requests : AddOperationCheck(p)
  \/ \E p \in Requests : AddRequestCheck(p)
  \/ \E p \in Requests : AddRequestSelect(p)
  \/ \E p \in Requests : InsertSync(p)
  \/ \E t \in Tasks : PB_Try(t)
  \/ \E t \in Tasks : PB_Done(t)
  \/ \E t \in Tasks : PB_Cancelled(t)
  \/ \E g \in gos : G_Begin(g)
  \/ \E g \in gos : G_Exec(g)
  \/ \E g \in gos : G_Commit(g)
  \/ Agg_Recv
  \/ Agg_Append
  \/ Agg_Exit
  \/ Flush_Tick
  \/ Flush_Exit
  \/ \E t \in {"agg", "flush"} : SendBatch_Ret(t)
  \/ \E w \in Workers : W_Recv(w)
  \/ \E w \in Workers : W_Exit(w)
  \/ \E w \in Workers : W_Ret(w)
  \/ Stop_Begin
  \/ Stop_Cancel
  \/ Stop_CloseInput
  \/ Stop_CloseBatch
  \/ Stop_CloseResult
  \/ Stop_Flush
  \/ Stop_Wait

SpecStop == InitBatch /\ [][NextStop]_vars

InitChaosSpec ==
  /\ InitChaos
  /\ RestartIdle
  /\ loc = PlainLocation /\ inb = PlainInbound /\ clients = NumRequests
  /\ randomCache = <<>>
  /\ rq = [p \in Requests |-> NewRequest]
  /\ ProcInit
  /\ BatchInit
  /\ WorkerIdle

NextChaos == DoApplyChaos

SpecChaos == InitChaosSpec /\ [][NextChaos]_vars

\* The supervisor with its two servers running; descriptors are rewritten,
\* restarts are signalled, other processes take and release ports.
InitRestart ==
  /\ ChaosIdle
  /\ RestartIdle
  /\ loc = PlainLocation /\ inb = PlainInbound /\ clients = NumRequests
  /\ randomCache = <<>>
  /\ rq = [p \in Requests |-> NewRequest]
  /\ ProcInit
  /\ BatchInit
  /\ WorkerIdle

NextRestart ==
  \/ \E n \in Names, d \in Declared : WriteDescriptor(n, d)
  \/ \E port \in Ports : ForeignBind(port)
  \/ \E port \in Ports : ForeignRelease(port)
  \/ \E n \in Names : Restart_Begin(n)
  \/ Restart_Locate
  \/ Restart_Bind

SpecRestart == InitRestart /\ [][NextRestart]_vars


\* ------------------------------------------------------------------------
\* Control plane: PUT /api/mock/config and the restart channel
\* ------------------------------------------------------------------------
\* make(chan string, 10)
RestartChanCap == 10

\* The bodies a client sends: not JSON, or JSON of a descriptor that declares
\* a listen port for the server, 0 standing for a descriptor that fails the
\* loader's validation.
PutBodies ==
  {[json |-> FALSE, listen |-> 0]} \cup [json : {TRUE}, listen : Declared]

\* The server the clients' PUT requests name.
PutNames == {"alpha"}

\* notifyRestart with one pending signal overwritten when the channel is full.
notifyRestartOverwrite(ch, n) ==
  IF Len(ch) < RestartChanCap
  THEN [ch |-> Append(ch, n), err |-> "sent"]
  ELSE [ch |-> Append(Tail(ch), n), err |-> "sent"]

\* notifyRestart: select { case restartChan <- name: ; default: } yields the
\* channel afterwards and the result.
notifyRestart(ch, n) ==
  IF Len(ch) < RestartChanCap
  THEN [ch |-> Append(ch, n), err |-> "sent"]
  ELSE [ch |-> ch, err |-> "ChannelFull"]

\* APIHandler.UpdateConfig for ?server_name=n: the body must parse as JSON;
\* ConfigService.UpdateConfig marshals it to YAML and writes it over the
\* server's file; 200 is answered and the restart is signalled.
UpdateConfig(n, body) ==
  /\ IF ~body.json
     THEN /\ put' = [name |-> n, json |-> FALSE, listen |-> body.listen,
                     status |-> 400, written |-> FALSE, notify |-> "none"]
          /\ UNCHANGED <<descriptors, restartChan>>
     ELSE LET r == notifyRestart(restartChan, n) IN
          /\ descriptors' = [descriptors EXCEPT ![n] = body.listen]
          /\ restartChan' = r.ch
          /\ put' = [name |-> n, json |-> TRUE, listen |-> body.listen,
                     status |-> 200, written |-> TRUE, notify |-> r.err]
  /\ UNCHANGED <<configs, servers, foreign, restart, edits, consumer, watcher, chaosVars, workerVars, startVars, raceVars, taskVars, loc, inb,
                 clients, randomCache, rq, procVars, batchVars>>

\* RestartManager.run: a signal is received and processRestart calls
\* RestartMainServer, which enters RestartSpecificServer.
Signal_Recv ==
  /\ restartChan # <<>>
  /\ restart.pc \in {"idle", "ok", "failed"}
  /\ restart.count < MaxRestarts
  /\ restart' = Started(Head(restartChan))
  /\ restartChan' = Tail(restartChan)
  /\ UNCHANGED <<descriptors, configs, servers, foreign, edits, put, consumer, watcher, chaosVars, workerVars, startVars, raceVars, taskVars,
                 loc, inb, clients, randomCache, rq, procVars, batchVars>>

\* The supervisor with its two servers running and the control plane
\* receiving PUT requests; the restart manager consumes the signals.
InitControl ==
  /\ ChaosIdle
  /\ RestartIdle
  /\ loc = PlainLocation /\ inb = PlainInbound /\ clients = NumRequests
  /\ randomCache = <<>>
  /\ rq = [p \in Requests |-> NewRequest]
  /\ ProcInit
  /\ BatchInit
  /\ WorkerIdle

NextControl ==
  \/ \E n \in PutNames, body \in PutBodies : UpdateConfig(n, body)
  \/ Signal_Recv
  \/ Restart_Locate
  \/ Restart_Bind

SpecControl == InitControl /\ [][NextControl]_vars

\* ------------------------------------------------------------------------
\* Start-up: the loader (config package) and Manager.CreateServers
\* ------------------------------------------------------------------------
\* A descriptor file is the sequence of its http.servers; a server has a
\* name, a listen port and locations; a location a path, a method and a
\* status code.
ValidLocation == [path |-> "/a", method |-> "GET", status |-> 200]

\* Locations as descriptors can declare them.
LoadLocations ==
  [path : {"", "/a"}, method : {"", "GET", "FOO"}, status : {0, 99, 100, 599, 600}]

\* Files that probe the validation rules: no server, a server without
\* locations, a server with one location of any explored shape.
ProbeFiles ==
  {<<>>}
    \cup {<<[name |-> "alpha", listen |-> l, locations |-> <<>>]>> : l \in {0, 9000}}
    \cup {<<[name |-> "alpha", listen |-> l, locations |-> <<c>>]>> :
            l \in {0, 9000}, c \in LoadLocations}

\* Files of one or two valid servers on any of two ports.
PlainServers ==
  {[name |-> n, listen |-> l, locations |-> <<ValidLocation>>] :
     n \in Names, l \in {9000, 9001}}
PortFiles == {<<s>> : s \in PlainServers} \cup {<<s, t>> : s, t \in PlainServers}

\* Directories: empty, one probing file, or one or two files of valid
\* servers.
Dirs ==
  {<<>>} \cup {<<f>> : f \in ProbeFiles \cup PortFiles}
         \cup {<<f, g>> : f, g \in {<<s>> : s \in PlainServers}}

\* validateConfig: TRUE when it returns an error.
locationInvalid(c) == c.path = "" \/ c.method = "" \/ c.status <= 0
serverInvalid(s) ==
  \/ s.listen <= 0
  \/ s.locations = <<>>
  \/ \E j \in 1..Len(s.locations) : locationInvalid(s.locations[j])
validateConfig(config) ==
  \/ config = <<>>
  \/ \E i \in 1..Len(config) : serverInvalid(config[i])

\* LoadConfigFromDir: an error when the directory has no descriptor file or
\* LoadConfig fails for one of them, else the trees in file order.
LoadConfigFromDir(d) ==
  IF d = <<>> \/ \E k \in 1..Len(d) : validateConfig(d[k])
  THEN [err |-> TRUE, configs |-> <<>>]
  ELSE [err |-> FALSE, configs |-> d]

\* CreateServer with the lookup of the port in m.servers left out.
CreateServerOverwrite(srv, s) ==
  [servers |-> [srv EXCEPT ![s.listen] = s.name], err |-> FALSE]

\* CreateServer: an error when m.servers has the port already, else the new
\* listener is stored under its port.
CreateServer(srv, s) ==
  IF srv[s.listen] # "none"
  THEN [servers |-> srv, err |-> TRUE]
  ELSE [servers |-> [srv EXCEPT ![s.listen] = s.name], err |-> FALSE]

\* CreateServers: CreateServer for each server of the tree in order, up to
\* the first error.
RECURSIVE CreateServers(_, _)
CreateServers(srv, config) ==
  IF config = <<>> THEN [servers |-> srv, err |-> FALSE]
  ELSE LET r == CreateServer(srv, Head(config)) IN
         IF r.err THEN r ELSE CreateServers(r.servers, Tail(config))

\* m.configs = append(m.configs, config), as the restart's search of the
\* stored configs sees it: the first stored port of each name.
RECURSIVE StoreConfig(_, _)
StoreConfig(cfgs, config) ==
  IF config = <<>> THEN cfgs
  ELSE LET s == Head(config) IN
       StoreConfig(IF cfgs[s.name] = 0 THEN [cfgs EXCEPT ![s.name] = s.listen]
                   ELSE cfgs,
                   Tail(config))

\* main: LoadConfigFromDir, fatal on error.
Startup_Load ==
  /\ loaded.pc = "new"
  /\ LET r == LoadConfigFromDir(dir) IN
       loaded' = [pc |-> IF r.err THEN "fatal" ELSE "create",
                  configs |-> r.configs, next |-> 1]
  /\ UNCHANGED <<dir, create, restartVars, signalVars, taskVars, raceVars, chaosVars, workerVars, loc, inb,
                 clients, randomCache, rq, procVars, batchVars>>

\* main: manager.CreateServers for the next loaded tree, fatal on error;
\* after the last tree the servers are started.
Startup_Create ==
  /\ loaded.pc = "create"
  /\ IF loaded.next > Len(loaded.configs)
     THEN /\ loaded' = [loaded EXCEPT !.pc = "started"]
          /\ UNCHANGED <<servers, configs, create>>
     ELSE LET config == loaded.configs[loaded.next]
              r == CreateServers(servers, config)
          IN /\ servers' = r.servers
             /\ configs' = StoreConfig(configs, config)
             /\ create' = [tree |-> config, err |-> r.err]
             /\ loaded' = IF r.err THEN [loaded EXCEPT !.pc = "fatal"]
                          ELSE [loaded EXCEPT !.next = @ + 1]
  /\ UNCHANGED <<dir, descriptors, foreign, restart, edits, signalVars, taskVars, raceVars, chaosVars, workerVars,
                 loc, inb, clients, randomCache, rq, procVars, batchVars>>

\* The process before main loads anything: an empty manager and a directory
\* of descriptor files.
InitStartup ==
  /\ ChaosIdle
  /\ restartChan = <<>> /\ put = NoPut /\ consumer = NoConsumer /\ watcher = NoWatcher
  /\ dir \in Dirs
  /\ loaded = NotLoaded
  /\ create = NoCreate
  /\ TasksIdle
  /\ descriptors = InitialTree
  /\ configs = [n \in Names |-> 0]
  /\ servers = [port \in Ports |-> "none"]
  /\ foreign = {} /\ restart = NoRestart /\ edits = 0
  /\ loc = PlainLocation /\ inb = PlainInbound /\ clients = NumRequests
  /\ randomCache = <<>>
  /\ rq = [p \in Requests |-> NewRequest]
  /\ ProcInit
  /\ BatchInit
  /\ WorkerIdle

NextStartup ==
  \/ Startup_Load
  \/ Startup_Create

SpecStartup == InitStartup /\ [][NextStartup]_vars

\* ------------------------------------------------------------------------
\* Listener tasks: Manager.Start, restarts and Manager.Stop
\* (src/internal/server/server.go)
\* ------------------------------------------------------------------------
\* Another listener holds the port of id.
PortTaken(id) ==
  \E o \in ListenerIds : o # id /\ lst[o].port = lst[id].port
                           /\ lst[o].task = "serving"

\* Server.Stop for listener s: nothing when s.httpServer is nil, else
\* httpServer.Shutdown, which closes the listening socket so that
\* ListenAndServe returns ErrServerClosed.
ServerStop(s) ==
  IF s.http = "nil" THEN s
  ELSE [s EXCEPT !.http = "closed",
                 !.task = IF @ = "serving" THEN "closing" ELSE @]

\* Manager.Start: a goroutine per registered server, each added to the wait
\* group.
Manager_Start ==
  /\ mgr.pc = "created"
  /\ lst' = [id \in ListenerIds |->
               IF id \in reg THEN [lst[id] EXCEPT !.task = "spawned"]
               ELSE lst[id]]
  /\ wg' = wg + Cardinality(reg)
  /\ mgr' = [mgr EXCEPT !.pc = "started"]
  /\ UNCHANGED <<reg, chaosVars, workerVars, restartVars, signalVars, startVars, raceVars, loc, inb,
                 clients, randomCache, rq, procVars, batchVars>>

\* Server.Start, first statement: s.httpServer = &http.Server{...}.
Server_Start(id) ==
  /\ lst[id].task = "spawned"
  /\ lst' = [lst EXCEPT ![id] = [@ EXCEPT !.http = "set", !.task = "assigned"]]
  /\ UNCHANGED <<reg, wg, mgr, chaosVars, workerVars, restartVars, signalVars, startVars, raceVars,
                 loc, inb, clients, randomCache, rq, procVars, batchVars>>

\* Server.Start, ListenAndServe: ErrServerClosed at once when Shutdown was
\* already called, an error when the port is taken, else the listener
\* serves until it is shut down.
Server_ListenAndServe(id) ==
  /\ lst[id].task = "assigned"
  /\ IF lst[id].http = "closed" \/ PortTaken(id)
     THEN /\ lst' = [lst EXCEPT ![id].task = "finished"]
          /\ wg' = wg - 1
     ELSE /\ lst' = [lst EXCEPT ![id].task = "serving"]
          /\ UNCHANGED wg
  /\ UNCHANGED <<reg, mgr, chaosVars, workerVars, restartVars, signalVars, startVars, raceVars,
                 loc, inb, clients, randomCache, rq, procVars, batchVars>>

\* The goroutine of a listener that was shut down: ListenAndServe has
\* returned, the deferred m.wg.Done() runs.
Server_Done(id) ==
  /\ lst[id].task = "closing"
  /\ lst' = [lst EXCEPT ![id].task = "finished"]
  /\ wg' = wg - 1
  /\ UNCHANGED <<reg, mgr, chaosVars, workerVars, restartVars, signalVars, startVars, raceVars,
                 loc, inb, clients, randomCache, rq, procVars, batchVars>>

\* restartServerAttempt as far as the listeners go: the target is stopped
\* and taken out of Manager.servers, a new *Server is created on the port,
\* added to the wait group and started in a goroutine of its own.
Restart_Replace(id, new) ==
  /\ mgr.pc = "started"
  /\ id \in reg
  /\ lst[new] = NoListener /\ \A o \in ListenerIds : o < new => lst[o] # NoListener
  /\ LET stopped == ServerStop(lst[id]) IN
       /\ ~PortTaken(id)
       /\ lst' = [lst EXCEPT ![id] = stopped,
                             ![new] = [NewListener(lst[id].port)
                                         EXCEPT !.task = "spawned"]]
  /\ reg' = (reg \ {id}) \cup {new}
  /\ wg' = wg + 1
  /\ UNCHANGED <<mgr, chaosVars, workerVars, restartVars, signalVars, startVars, raceVars, loc, inb,
                 clients, randomCache, rq, procVars, batchVars>>

\* Manager.Stop is called: the restart manager is stopped, then the range
\* over Manager.servers begins.
Manager_Stop ==
  /\ mgr.pc = "started"
  /\ mgr' = [pc |-> "stopping", todo |-> reg]
  /\ UNCHANGED <<lst, reg, wg, chaosVars, workerVars, restartVars, signalVars, startVars, raceVars,
                 loc, inb, clients, randomCache, rq, procVars, batchVars>>

\* Manager.Stop, one iteration of `for _, server := range m.servers`.
Manager_StopServer(id) ==
  /\ mgr.pc = "stopping" /\ id \in mgr.todo
  /\ lst' = [lst EXCEPT ![id] = ServerStop(@)]
  /\ mgr' = [mgr EXCEPT !.todo = @ \ {id}]
  /\ UNCHANGED <<reg, wg, chaosVars, workerVars, restartVars, signalVars, startVars, raceVars, loc,
                 inb, clients, randomCache, rq, procVars, batchVars>>

\* Manager.Stop, m.wg.Wait(): returns when every added task is done.
Manager_Wait ==
  /\ mgr.pc = "stopping" /\ mgr.todo = {}
  /\ wg = 0
  /\ mgr' = [mgr EXCEPT !.pc = "stopped"]
  /\ UNCHANGED <<lst, reg, wg, chaosVars, workerVars, restartVars, signalVars, startVars, raceVars,
                 loc, inb, clients, randomCache, rq, procVars, batchVars>>

\* main after CreateServers: NumListeners servers registered on ports of
\* their own, none started.
InitShutdown ==
  /\ ChaosIdle
  /\ restartChan = <<>> /\ put = NoPut /\ consumer = NoConsumer /\ watcher = NoWatcher
  /\ dir = <<>> /\ loaded = StartupDone /\ create = NoCreate
  /\ descriptors = InitialTree /\ configs = InitialTree
  /\ servers = InitialServers
  /\ foreign = {} /\ restart = NoRestart /\ edits = 0
  /\ \E ports \in [1..NumListeners -> ListenPorts] :
       /\ \A i, j \in 1..NumListeners : i # j => ports[i] # ports[j]
       /\ lst = [id \in ListenerIds |->
                   IF id <= NumListeners THEN NewListener(ports[id])
                   ELSE NoListener]
  /\ reg = 1..NumListeners
  /\ wg = 0
  /\ mgr = [pc |-> "created", todo |-> {}]
  /\ randomCacheMutex = Unlocked /\ acc = {}
  /\ loc = PlainLocation /\ inb = PlainInbound /\ clients = NumRequests
  /\ randomCache = <<>>
  /\ rq = [p \in Requests |-> NewRequest]
  /\ ProcInit
  /\ BatchInit
  /\ WorkerIdle

NextShutdown ==
  \/ Manager_Start
  \/ \E id \in ListenerIds : Server_Start(id)
  \/ \E id \in ListenerIds : Server_ListenAndServe(id)
  \/ \E id \in ListenerIds : Server_Done(id)
  \/ \E id \in ListenerIds, new \in ListenerIds : Restart_Replace(id, new)
  \/ Manager_Stop
  \/ \E id \in ListenerIds : Manager_StopServer(id)
  \/ Manager_Wait

SpecShutdown == InitShutdown /\ [][NextShutdown]_vars

\* The scheduler runs every goroutine that can take a step, and main goes
\* on through Manager.Stop once it has called it; when the restarts and the
\* shutdown signal come is left open.
FairShutdown ==
  /\ \A id \in ListenerIds :
       /\ WF_vars(Server_Start(id))
       /\ WF_vars(Server_ListenAndServe(id))
       /\ WF_vars(Server_Done(id))
       /\ WF_vars(Manager_StopServer(id))
  /\ WF_vars(Manager_Wait)

SpecShutdownLive == SpecShutdown /\ FairShutdown

\* ------------------------------------------------------------------------
\* The restart-signal consumer: RestartManager.run and processRestart
\* ------------------------------------------------------------------------
\* Time is counted in ticks of ten seconds from the moment processRestart
\* derives its context; DefaultRestartOptions gives Timeout 30 s and
\* RetryCount 3.
Timeout == 3
RetryCount == 3

\* The signals waiting in restartChan when the consumer starts.
SignalQueues == UNION {[1..n -> Names] : n \in 0..MaxSignals}

\* restartFunc as CreateAPIServer binds it: RestartMainServer(serverName) is
\* called and nil is returned whatever the restart did.
RestartFuncErrs == {FALSE}

\* run: case serverName, ok := <-rm.restartChan, then processRestart derives
\* ctx with the timeout and enters its loop at attempt 1.
RM_Recv ==
  /\ consumer.pc = "select"
  /\ restartChan # <<>>
  /\ consumer' = [consumer EXCEPT !.pc = "attempt", !.name = Head(restartChan),
                                  !.attempt = 1, !.clock = 0, !.log = "received"]
  /\ restartChan' = Tail(restartChan)
  /\ UNCHANGED <<put, watcher, chaosVars, workerVars, restartVars, startVars, raceVars, taskVars,
                 loc, inb, clients, randomCache, rq, procVars, batchVars>>

\* processRestart at the head of its loop: past RetryCount every attempt has
\* failed; ctx.Done() is polled without blocking and, when the timeout has
\* passed or rm.ctx was cancelled, the timeout is logged and processRestart
\* returns; otherwise restartFunc is called on the consumer's own goroutine.
RM_Attempt ==
  /\ consumer.pc = "attempt"
  /\ consumer' =
       IF consumer.attempt > RetryCount
       THEN [consumer EXCEPT !.pc = "select", !.log = "failed"]
       ELSE IF consumer.clock >= Timeout \/ consumer.done
       THEN [consumer EXCEPT !.pc = "select", !.log = "timeout"]
       ELSE [consumer EXCEPT !.pc = "invoke"]
  /\ UNCHANGED <<restartChan, put, watcher, chaosVars, workerVars, restartVars, startVars, raceVars,
                 taskVars, loc, inb, clients, randomCache, rq, procVars,
                 batchVars>>

\* Ten more seconds pass while restartFunc is running.
RM_Tick ==
  /\ consumer.pc = "invoke"
  /\ consumer.clock < MaxElapsed
  /\ consumer' = [consumer EXCEPT !.clock = @ + 1]
  /\ UNCHANGED <<restartChan, put, watcher, chaosVars, workerVars, restartVars, startVars, raceVars,
                 taskVars, loc, inb, clients, randomCache, rq, procVars,
                 batchVars>>

\* restartFunc returns: an error leads to the next attempt, nil is logged as
\* a successful restart and run goes back to its select.
RM_Return ==
  /\ consumer.pc = "invoke"
  /\ \E err \in RestartFuncErrs :
       consumer' = IF err
                   THEN [consumer EXCEPT !.pc = "attempt", !.attempt = @ + 1]
                   ELSE [consumer EXCEPT !.pc = "select", !.log = "restarted"]
  /\ UNCHANGED <<restartChan, put, watcher, chaosVars, workerVars, restartVars, startVars, raceVars,
                 taskVars, loc, inb, clients, randomCache, rq, procVars,
                 batchVars>>

\* The supervisor is up and signals are queued for the restart manager.
InitConsumer ==
  /\ ChaosIdle
  /\ TasksIdle
  /\ restartChan \in SignalQueues /\ put = NoPut /\ consumer = NoConsumer /\ watcher = NoWatcher
  /\ dir = <<>> /\ loaded = StartupDone /\ create = NoCreate
  /\ descriptors = InitialTree /\ configs = InitialTree
  /\ servers = InitialServers
  /\ foreign = {} /\ restart = NoRestart /\ edits = 0
  /\ loc = PlainLocation /\ inb = PlainInbound /\ clients = NumRequests
  /\ randomCache = <<>>
  /\ rq = [p \in Requests |-> NewRequest]
  /\ ProcInit
  /\ BatchInit
  /\ WorkerIdle

NextConsumer ==
  \/ RM_Recv
  \/ RM_Attempt
  \/ RM_Tick
  \/ RM_Return

SpecConsumer == InitConsumer /\ [][NextConsumer]_vars

\* ------------------------------------------------------------------------
\* Restarts against Manager.Stop: who touches m.servers and m.configs
\* ------------------------------------------------------------------------
\* run's select takes a signal (it may do so even when the context is
\* cancelled, both cases being ready) and processRestart calls
\* RestartMainServer on run's own goroutine.
Run_Recv ==
  /\ consumer.pc = "select"
  /\ restartChan # <<>>
  /\ restart.pc \in {"idle", "ok", "failed"}
  /\ restart.count < MaxRestarts
  /\ consumer' = [consumer EXCEPT !.pc = "invoke", !.name = Head(restartChan),
                                  !.attempt = 1, !.log = "received"]
  /\ restart' = Started(Head(restartChan))
  /\ restartChan' = Tail(restartChan)
  /\ UNCHANGED <<descriptors, configs, servers, foreign, edits, put, watcher, chaosVars, workerVars,
                 startVars, raceVars, taskVars, loc, inb, clients, randomCache,
                 rq, procVars, batchVars>>

\* RestartSpecificServer has returned and so has restartFunc, with nil.
Run_Return ==
  /\ consumer.pc = "invoke"
  /\ restart.pc \in {"ok", "failed"}
  /\ consumer' = [consumer EXCEPT !.pc = "select", !.log = "restarted"]
  /\ UNCHANGED <<restartChan, put, watcher, chaosVars, workerVars, restartVars, startVars, raceVars,
                 taskVars, loc, inb, clients, randomCache, rq, procVars,
                 batchVars>>

\* run's select takes ctx.Done() and run returns (wg.Done).
Run_Exit ==
  /\ consumer.pc = "select"
  /\ consumer.done
  /\ consumer' = [consumer EXCEPT !.pc = "exited"]
  /\ UNCHANGED <<restartChan, put, watcher, chaosVars, workerVars, restartVars, startVars, raceVars,
                 taskVars, loc, inb, clients, randomCache, rq, procVars,
                 batchVars>>

\* Manager.Stop, first statement: restartManager.Stop cancels the context
\* and then waits for run.
StopAll_Begin ==
  /\ mgr.pc = "started"
  /\ mgr' = [mgr EXCEPT !.pc = "join"]
  /\ consumer' = [consumer EXCEPT !.done = TRUE]
  /\ UNCHANGED <<restartChan, put, watcher, lst, reg, wg, chaosVars, workerVars, restartVars,
                 startVars, raceVars, loc, inb, clients, randomCache, rq,
                 procVars, batchVars>>

\* Manager.Stop goes on without waiting for run.
JoinedNoWait == TRUE
\* RestartManager.Stop: rm.wg.Wait() returns once run has returned.
Joined == consumer.pc = "exited"

\* restartManager.Stop returns (running is cleared) and Manager.Stop enters
\* its range over m.servers.
StopAll_Join ==
  /\ mgr.pc = "join"
  /\ Joined
  /\ mgr' = [pc |-> "stopping", todo |-> {port \in Ports : servers[port] # "none"}]
  /\ consumer' = [consumer EXCEPT !.running = FALSE]
  /\ UNCHANGED <<restartChan, put, watcher, lst, reg, wg, chaosVars, workerVars, restartVars,
                 startVars, raceVars, loc, inb, clients, randomCache, rq,
                 procVars, batchVars>>

\* One iteration of the range: server.Stop() for the entry on port.
StopAll_Server(port) ==
  /\ mgr.pc = "stopping"
  /\ port \in mgr.todo
  /\ mgr' = [mgr EXCEPT !.todo = @ \ {port}]
  /\ UNCHANGED <<lst, reg, wg, chaosVars, workerVars, restartVars, signalVars, startVars,
                 raceVars, loc, inb, clients, randomCache, rq, procVars,
                 batchVars>>

\* The range is over: m.wg.Wait().
StopAll_Wait ==
  /\ mgr.pc = "stopping"
  /\ mgr.todo = {}
  /\ mgr' = [mgr EXCEPT !.pc = "stopped"]
  /\ UNCHANGED <<lst, reg, wg, chaosVars, workerVars, restartVars, signalVars, startVars,
                 raceVars, loc, inb, clients, randomCache, rq, procVars,
                 batchVars>>

\* The supervisor is up, the restart manager runs and signals are queued;
\* main receives its signal at any moment and calls Manager.Stop.
InitExclusion ==
  /\ ChaosIdle
  /\ randomCacheMutex = Unlocked /\ acc = {}
  /\ lst = [id \in ListenerIds |-> NoListener] /\ reg = {} /\ wg = 0
  /\ mgr = [pc |-> "started", todo |-> {}]
  /\ restartChan \in SignalQueues /\ put = NoPut /\ consumer = NoConsumer /\ watcher = NoWatcher
  /\ dir = <<>> /\ loaded = StartupDone /\ create = NoCreate
  /\ descriptors \in [Names -> Ports] /\ configs = InitialTree
  /\ servers = InitialServers
  /\ foreign = {} /\ restart = NoRestart /\ edits = 0
  /\ loc = PlainLocation /\ inb = PlainInbound /\ clients = NumRequests
  /\ randomCache = <<>>
  /\ rq = [p \in Requests |-> NewRequest]
  /\ ProcInit
  /\ BatchInit
  /\ WorkerIdle

NextExclusion ==
  \/ Run_Recv
  \/ Restart_Locate
  \/ Restart_Bind
  \/ Run_Return
  \/ Run_Exit
  \/ StopAll_Begin
  \/ StopAll_Join
  \/ \E port \in Ports : StopAll_Server(port)
  \/ StopAll_Wait

SpecExclusion == InitExclusion /\ [][NextExclusion]_vars

\* ------------------------------------------------------------------------
\* ConfigWatcher.WatchForChanges over a ServerController's channel
\* ------------------------------------------------------------------------
\* NewServerController, NewConfigWatcher and WatchForChanges: the loop's
\* goroutine waits in its select, no handler runs, n signals were taken.
NewWatcher == [NoWatcher EXCEPT !.pc = "select"]

\* The loop takes a signal: it starts a goroutine that runs restartHandler
\* and closes done, and waits for done or for time.After(cw.timeout).
CW_Recv ==
  /\ watcher.pc = "select"
  /\ restartChan # <<>>
  /\ watcher' = [watcher EXCEPT !.pc = "wait", !.cur = watcher.n + 1,
                                !.n = @ + 1,
                                !.handlers = @ \cup {watcher.n + 1}]
  /\ restartChan' = Tail(restartChan)
  /\ UNCHANGED <<put, consumer, chaosVars, workerVars, restartVars, startVars, raceVars,
                 taskVars, loc, inb, clients, randomCache, rq, procVars,
                 batchVars>>

\* restartHandler returns in the goroutine of invocation h; done is closed.
CW_HandlerReturns(h) ==
  /\ h \in watcher.handlers
  /\ watcher' = [watcher EXCEPT !.handlers = @ \ {h}]
  /\ UNCHANGED <<restartChan, put, consumer, chaosVars, workerVars, restartVars, startVars,
                 raceVars, taskVars, loc, inb, clients, randomCache, rq,
                 procVars, batchVars>>

\* The inner select takes done.
CW_Done ==
  /\ watcher.pc = "wait"
  /\ watcher.cur \notin watcher.handlers
  /\ watcher' = [watcher EXCEPT !.pc = "select", !.log = "completed"]
  /\ UNCHANGED <<restartChan, put, consumer, chaosVars, workerVars, restartVars, startVars,
                 raceVars, taskVars, loc, inb, clients, randomCache, rq,
                 procVars, batchVars>>

\* The inner select takes time.After(cw.timeout): the handler has run for 30
\* seconds; the timeout is logged and the loop goes back to its select.  The
\* handler's goroutine is left running.
CW_Timeout ==
  /\ watcher.pc = "wait"
  /\ watcher.cur \in watcher.handlers
  /\ watcher' = [watcher EXCEPT !.pc = "select", !.log = "timeout"]
  /\ UNCHANGED <<restartChan, put, consumer, chaosVars, workerVars, restartVars, startVars,
                 raceVars, taskVars, loc, inb, clients, randomCache, rq,
                 procVars, batchVars>>

\* ServerController.Close: closed is set, the context cancelled and the
\* channel closed (what it still buffers can be received).
Controller_Close ==
  /\ ~watcher.closed
  /\ watcher' = [watcher EXCEPT !.closed = TRUE]
  /\ UNCHANGED <<restartChan, put, consumer, chaosVars, workerVars, restartVars, startVars,
                 raceVars, taskVars, loc, inb, clients, randomCache, rq,
                 procVars, batchVars>>

\* The loop's select takes ctx.Done(), or the closed and drained channel.
CW_Exit ==
  /\ watcher.pc = "select"
  /\ watcher.closed
  /\ watcher' = [watcher EXCEPT !.pc = "exited"]
  /\ UNCHANGED <<restartChan, put, consumer, chaosVars, workerVars, restartVars, startVars,
                 raceVars, taskVars, loc, inb, clients, randomCache, rq,
                 procVars, batchVars>>

\* A ConfigWatcher watching a controller's channel with signals queued.
InitWatcher ==
  /\ ChaosIdle
  /\ TasksIdle
  /\ restartChan \in SignalQueues /\ put = NoPut /\ consumer = NoConsumer
  /\ watcher = NewWatcher
  /\ dir = <<>> /\ loaded = StartupDone /\ create = NoCreate
  /\ descriptors = InitialTree /\ configs = InitialTree
  /\ servers = InitialServers
  /\ foreign = {} /\ restart = NoRestart /\ edits = 0
  /\ loc = PlainLocation /\ inb = PlainInbound /\ clients = NumRequests
  /\ randomCache = <<>>
  /\ rq = [p \in Requests |-> NewRequest]
  /\ ProcInit
  /\ BatchInit
  /\ WorkerIdle

NextWatcher ==
  \/ CW_Recv
  \/ \E h \in 1..MaxSignals : CW_HandlerReturns(h)
  \/ CW_Done
  \/ CW_Timeout
  \/ Controller_Close
  \/ CW_Exit

SpecWatcher == InitWatcher /\ [][NextWatcher]_vars

\* ------------------------------------------------------------------------
\* RestartManager: Start and Stop called in any order
\* ------------------------------------------------------------------------
\* NewRestartManager: the context is made here, once; running is false and
\* no run goroutine exists.
NewRestartManager == [NoConsumer EXCEPT !.pc = "none", !.running = FALSE]

\* Start under rm.mu: refused when running; else running is set and run is
\* started.  The context is the one NewRestartManager made.
RM_Start ==
  /\ mgr.pc = "started"
  /\ ~consumer.running
  /\ consumer' = [consumer EXCEPT !.running = TRUE, !.pc = "select"]
  /\ UNCHANGED <<restartChan, put, watcher, chaosVars, workerVars, restartVars, startVars,
                 raceVars, taskVars, loc, inb, clients, randomCache, rq,
                 procVars, batchVars>>

\* Stop under rm.mu on a running manager: rm.cancel(), then rm.wg.Wait().
RM_StopCancel ==
  /\ mgr.pc = "started"
  /\ consumer.running
  /\ mgr' = [mgr EXCEPT !.pc = "join"]
  /\ consumer' = [consumer EXCEPT !.done = TRUE]
  /\ UNCHANGED <<restartChan, put, watcher, lst, reg, wg, chaosVars, workerVars, restartVars,
                 startVars, raceVars, loc, inb, clients, randomCache, rq,
                 procVars, batchVars>>

\* rm.wg.Wait() returns once run has returned; running is cleared and Stop
\* returns.
RM_StopJoin ==
  /\ mgr.pc = "join"
  /\ Joined
  /\ mgr' = [mgr EXCEPT !.pc = "started"]
  /\ consumer' = [consumer EXCEPT !.running = FALSE]
  /\ UNCHANGED <<restartChan, put, watcher, lst, reg, wg, chaosVars, workerVars, restartVars,
                 startVars, raceVars, loc, inb, clients, randomCache, rq,
                 procVars, batchVars>>

\* A new RestartManager on a channel with signals queued; its owner calls
\* Start and Stop.
InitLifecycle ==
  /\ ChaosIdle
  /\ randomCacheMutex = Unlocked /\ acc = {}
  /\ lst = [id \in ListenerIds |-> NoListener] /\ reg = {} /\ wg = 0
  /\ mgr = [pc |-> "started", todo |-> {}]
  /\ restartChan \in SignalQueues /\ put = NoPut
  /\ consumer = NewRestartManager /\ watcher = NoWatcher
  /\ dir = <<>> /\ loaded = StartupDone /\ create = NoCreate
  /\ descriptors = InitialTree /\ configs = InitialTree
  /\ servers = InitialServers
  /\ foreign = {} /\ restart = NoRestart /\ edits = 0
  /\ loc = PlainLocation /\ inb = PlainInbound /\ clients = NumRequests
  /\ randomCache = <<>>
  /\ rq = [p \in Requests |-> NewRequest]
  /\ ProcInit
  /\ BatchInit
  /\ WorkerIdle

NextLifecycle ==
  \/ RM_Start
  \/ RM_StopCancel
  \/ RM_StopJoin
  \/ RM_Recv
  \/ RM_Attempt
  \/ RM_Tick
  \/ RM_Return
  \/ Run_Exit

SpecLifecycle == InitLifecycle /\ [][NextLifecycle]_vars

\* ------------------------------------------------------------------------
\* database.Worker: Start, Stop, InsertAsync and IsRunning over TimeStop
\* ------------------------------------------------------------------------
WorkerOps == {"Start", "Stop", "InsertAsync", "IsRunning"}

\* The first lock operation of each method: Start and Stop call
\* TimeStop.Lock, InsertAsync calls TimeStop.RLock, IsRunning is its RLock.
FirstStep(op) ==
  CASE op \in {"Start", "Stop"} -> "Lock"
    [] op = "InsertAsync"       -> "RLock"
    [] OTHER                    -> "IsRunning"

\* A goroutine calls one of the worker's methods.
Worker_Call(c, op) ==
  /\ worker.call[c].pc = "idle"
  /\ worker' = [worker EXCEPT !.call[c] = [op |-> op, pc |-> FirstStep(op)]]
  /\ UNCHANGED <<chaosVars, restartVars, signalVars, startVars, raceVars,
                 taskVars, loc, inb, clients, randomCache, rq, procVars,
                 batchVars>>

\* w.TimeStop.Lock() of Start and Stop: granted when nobody holds the mutex
\* for writing or for reading. The next statement is the call of IsRunning.
Worker_Lock(c) ==
  /\ worker.call[c].pc = "Lock"
  /\ worker.writer = 0
  /\ \A d \in Callers : worker.reads[d] = 0
  /\ worker' = [worker EXCEPT !.writer = c, !.call[c].pc = "IsRunning"]
  /\ UNCHANGED <<chaosVars, restartVars, signalVars, startVars, raceVars,
                 taskVars, loc, inb, clients, randomCache, rq, procVars,
                 batchVars>>

\* w.TimeStop.RLock(), of InsertAsync or inside IsRunning: granted when no
\* goroutine holds the mutex for writing and none waits in Lock. The mutex
\* does not know its holder: the writer itself waits like anybody else.
Worker_RLock(c) ==
  /\ worker.call[c].pc \in {"RLock", "IsRunning"}
  /\ worker.writer = 0
  /\ \A d \in Callers : worker.call[d].pc # "Lock"
  /\ worker' = [worker EXCEPT
                  !.reads[c] = @ + 1,
                  !.call[c].pc = IF @ = "RLock" THEN "IsRunning" ELSE "Return"]
  /\ UNCHANGED <<chaosVars, restartVars, signalVars, startVars, raceVars,
                 taskVars, loc, inb, clients, randomCache, rq, procVars,
                 batchVars>>

\* The select of InsertAsync on a running worker: the send when JobQueue
\* has room, ctx.Done when the context is cancelled, default when neither
\* is ready.
Enqueue(w) ==
  IF ~w.Running THEN {w.jobs}
  ELSE LET send == IF w.jobs < WorkerQueueSize THEN {w.jobs + 1} ELSE {}
           done == IF w.cancelled THEN {w.jobs} ELSE {}
       IN  IF send \cup done = {} THEN {w.jobs} ELSE send \cup done

\* IsRunning reads Running and releases its read lock, and the caller goes
\* on to its end: Start returns at once on a running worker and otherwise
\* sets Running and starts MaxWorkers routines; Stop returns at once on a
\* stopped worker and otherwise cancels the context, closes JobQueue, waits
\* for the routines and clears Running; both release the write lock on
\* return. InsertAsync releases its own read lock and enqueues or inserts.
Worker_Return(c) ==
  /\ worker.call[c].pc = "Return"
  /\ LET op == worker.call[c].op
         r  == worker.Running
     IN  \E j \in Enqueue(worker) :
           worker' =
             CASE op = "Start" ->
                    [worker EXCEPT !.reads[c] = @ - 1, !.writer = 0,
                                   !.Running = TRUE,
                                   !.routines = IF r THEN @ ELSE MaxWorkers,
                                   !.call[c] = IdleCall]
               [] op = "Stop" ->
                    [worker EXCEPT !.reads[c] = @ - 1, !.writer = 0,
                                   !.Running = FALSE,
                                   !.cancelled = @ \/ r,
                                   !.routines = IF r THEN 0 ELSE @,
                                   !.jobs = IF r THEN 0 ELSE @,
                                   !.call[c] = IdleCall]
               [] op = "InsertAsync" ->
                    [worker EXCEPT !.reads[c] = @ - 2, !.jobs = j,
                                   !.call[c] = IdleCall]
               [] OTHER ->
                    [worker EXCEPT !.reads[c] = @ - 1, !.call[c] = IdleCall]
  /\ UNCHANGED <<chaosVars, restartVars, signalVars, startVars, raceVars,
                 taskVars, loc, inb, clients, randomCache, rq, procVars,
                 batchVars>>

\* A Worker made by NewWorker, shared by the calling goroutines.
InitWorker ==
  /\ ChaosIdle
  /\ TasksIdle
  /\ restartChan = <<>> /\ put = NoPut /\ consumer = NoConsumer
  /\ watcher = NoWatcher
  /\ worker = NewWorker
  /\ dir = <<>> /\ loaded = StartupDone /\ create = NoCreate
  /\ descriptors = InitialTree /\ configs = InitialTree
  /\ servers = InitialServers
  /\ foreign = {} /\ restart = NoRestart /\ edits = 0
  /\ loc = PlainLocation /\ inb = PlainInbound /\ clients = NumRequests
  /\ randomCache = <<>>
  /\ rq = [p \in Requests |-> NewRequest]
  /\ ProcInit
  /\ BatchInit

NextWorker ==
  \/ \E c \in Callers, op \in WorkerOps : Worker_Call(c, op)
  \/ \E c \in Callers : Worker_Lock(c)
  \/ \E c \in Callers : Worker_RLock(c)
  \/ \E c \in Callers : Worker_Return(c)

SpecWorker == InitWorker /\ [][NextWorker]_vars

\* The scheduler runs every goroutine that can take a step, and the mutex
\* does not starve a goroutine that it could serve again and again.
FairWorker ==
  \A c \in Callers :
    /\ SF_vars(Worker_Lock(c))
    /\ SF_vars(Worker_RLock(c))
    /\ WF_vars(Worker_Return(c))

SpecWorkerLive == SpecWorker /\ FairWorker
\* ------------------------------------------------------------------------
\* Properties of the chaos engine
\* ------------------------------------------------------------------------

\* A probability that is 0, negative or not parseable as a number.
NoopProbability(s) ==
  LET probability == ParseFloat(s) IN probability.err \/ FloatLE0(probability)

AllAxesNoop(c) ==
  /\ NoopProbability(c.Latency.Probability)
  /\ NoopProbability(c.Abort.Probability)
  /\ NoopProbability(c.Error.Probability)

InRange(s) ==
  LET probability == ParseFloat(s) IN
    ~probability.err /\ ~probability.nan
      /\ probability.val >= 0 /\ probability.val <= 100

\* C9 - for each configured axis with probability p in [0,100], the axis
\* fires exactly when its roll is below p (stated for the three axes; the
\* error axis is only rolled when abort did not fire).
C9_FiresIffRollBelow ==
  (chaosDone /\ ~chaosCfg.nil) =>
    LET c == chaosCfg.v IN
    /\ (c.Latency.Time > 0 /\ InRange(c.Latency.Probability))
         => ((chaosOut.slept > 0)
               <=> (chaosRolls[1] < ParseFloat(c.Latency.Probability).val))
    /\ (c.Abort.Code > 0 /\ InRange(c.Abort.Probability))
         => ((chaosOut.abortCode > 0)
               <=> (chaosRolls[2] < ParseFloat(c.Abort.Probability).val))
    /\ (chaosOut.errorTried /\ c.Error.Code > 0 /\ InRange(c.Error.Probability))
         => ((chaosOut.errorCode > 0)
               <=> (chaosRolls[3] < ParseFloat(c.Error.Probability).val))


\* C24 - applying chaos runs three independent trials in the fixed order
\* latency, abort, error and returns true exactly when abort or error fired:
\* the latency trial is made and slept whatever the others do and never
\* short-circuits by itself; the abort trial is made whatever latency did, and
\* when it fires the error axis is not applied and only abort.code is
\* written; the error trial is made exactly when abort did not fire; when
\* neither fires nothing is written.
C24_ThreeTrials ==
  (chaosDone /\ ~chaosCfg.nil) =>
    LET c == chaosCfg.v
        abortFired == chaosOut.abortCode > 0
        errorFired == chaosOut.errorCode > 0
    IN
    /\ chaosOut.slept = applyLatency(c.Latency, chaosRolls[1])
    /\ chaosOut.abortCode = applyAbort(c.Abort, chaosRolls[2])
    /\ chaosOut.errorTried <=> ~abortFired
    /\ chaosOut.errorTried => chaosOut.errorCode = applyError(c.Error, chaosRolls[3])
    /\ chaosOut.ret <=> (abortFired \/ errorFired)
    /\ abortFired => /\ ~errorFired
                     /\ chaosOut.w = [NewWriter EXCEPT !.status = c.Abort.Code]
    /\ (~abortFired /\ errorFired)
         => chaosOut.w = [NewWriter EXCEPT !.status = c.Error.Code]
    /\ (~abortFired /\ ~errorFired) => chaosOut.w = NewWriter

\* C24 witness: latency and abort both fired on a block whose error axis
\* would have fired too; ApplyChaos slept, wrote the abort code alone and did
\* not try the error axis.
C24_Witness ==
  /\ chaosDone /\ ~chaosCfg.nil
  /\ chaosOut.slept > 0 /\ chaosOut.abortCode > 0 /\ chaosOut.ret
  /\ applyError(chaosCfg.v.Error, chaosRolls[3]) > 0
  /\ ~chaosOut.errorTried
  /\ chaosOut.w.status = chaosCfg.v.Abort.Code
\* ------------------------------------------------------------------------
\* Properties of the batcher
\* ------------------------------------------------------------------------

\* The handler has returned for request p.
Served(p) == rq[p].pc = "done"

\* No store failure was injected.
StoreHealthy == faults = 0

\* Nothing is in flight in the batcher: queues and current batch empty, every
\* task waiting, no transaction goroutine left.
Quiescent ==
  /\ InputQueue = <<>> /\ BatchQueue = <<>> /\ CurrentBatch = <<>>
  /\ aggOp = 0
  /\ gos = {}
  /\ \A t \in Tasks : pr[t].pc = "idle"
  /\ \A p \in Requests : rq[p].pc \in {"new", "done"}

\* C1 - capture totality: once main() has returned from a graceful shutdown
\* (no store failure, no panic), every served request has exactly one row in
\* the store.
C1_CaptureTotality ==
  (exited /\ ~crashed /\ StoreHealthy)
    => \A p \in Requests : Served(p) => store[p] = 1

\* C2 - while the batcher runs and the store is healthy, every add call is
\* accepted by the queue or falls back to the direct insert, no record is
\* ever stored twice, and once the batcher has nothing in flight every added
\* record is in the store exactly once.
C2_ExactlyOnce ==
  /\ \A p \in Requests : store[p] <= 1
  /\ StoreHealthy =>
       \A p \in Requests : Served(p) => rq[p].how \in {"queued", "direct"}
  /\ (StoreHealthy /\ Quiescent) =>
       \A p \in Requests : Served(p) => store[p] = 1

\* C2 witness: the batcher is quiescent after one record went through the
\* queue and a batch and another through the direct insert taken on a full
\* input queue; both are stored once.
C2_Witness ==
  /\ StoreHealthy /\ Quiescent /\ ~exited
  /\ \E p, q \in Requests :
       /\ rq[p].how = "queued" /\ rq[q].how = "direct"
       /\ Served(p) /\ Served(q)
       /\ store[p] = 1 /\ store[q] = 1
  /\ TotalBatches > 0

AllRows(b)  == \A i \in 1..Len(b) : store[b[i]] >= 1
NoRows(b)   == \A i \in 1..Len(b) : store[b[i]] = 0

\* C3 - batch commit atomicity: at every moment, for every batch handed off
\* by sendBatch, the store holds every record of the batch or none.
C3_BatchAtomic ==
  \A b \in batches : AllRows(b) \/ NoRows(b)

\* C3 witness: a batch of two records is fully stored after an attempt of
\* it failed or was abandoned on timeout and a later attempt ran.
C3_Witness ==
  \E b \in batches :
    /\ Len(b) = 2 /\ AllRows(b)
    /\ faults + timeouts > 0
    /\ \E t \in Tasks : pr[t].batch = b /\ pr[t].attempt = 2


\* ------------------------------------------------------------------------
\* Properties of the control plane
\* ------------------------------------------------------------------------

\* The step is a PUT /api/mock/config (the restart in progress is untouched).
PutStep == restart' = restart /\ put'.name # "none"

\* C15 - signalling a restart never blocks: the restart channel never holds
\* more than 10 signals; a signal sent with fewer than 10 pending is
\* appended, and one sent with 10 pending is dropped, leaves the pending
\* signals as they were and yields ChannelFull.
C15_SignalNeverBlocks ==
  /\ [](Len(restartChan) <= RestartChanCap)
  /\ [][ (PutStep /\ put'.written) =>
           IF Len(restartChan) < RestartChanCap
           THEN /\ restartChan' = Append(restartChan, put'.name)
                /\ put'.notify = "sent"
           ELSE /\ restartChan' = restartChan
                /\ put'.notify = "ChannelFull" ]_vars

\* C15 witness: a signal was dropped with ChannelFull while 10 signals were
\* pending, after the restart manager had consumed earlier ones.
C15_Witness ==
  /\ put.notify = "ChannelFull"
  /\ Len(restartChan) = RestartChanCap
  /\ restart.count > 0

\* C16 - PUT validates before anything else: a body that is not JSON or
\* whose descriptor fails validation is answered with an error, leaves the
\* descriptor file as it was and sends no restart signal; a signal is sent
\* only by a PUT that wrote the descriptor.
C16_ValidateBeforeWrite ==
  [][ PutStep =>
        IF ~put'.json \/ put'.listen = 0
        THEN /\ put'.status >= 400
             /\ descriptors' = descriptors
             /\ restartChan' = restartChan
        ELSE restartChan' # restartChan => put'.written ]_vars

\* ------------------------------------------------------------------------
\* Properties of the fan-out
\* ------------------------------------------------------------------------

\* The handler has written the response of p.
Responded(p) == rq[p].pc \notin {"new", "readbody", "render"}

\* The responses the location gives to the request when no fan-out call
\* interferes: status and body.
ResponsesAlone(p) ==
  { LET t == processResponseTemplate(p, 1, loc.Response, <<>>, v, inb.body) IN
      IF t.err THEN <<500, "template error">> ELSE <<loc.StatusCode, t.out>>
    : v \in Values }

\* C14 - fan-out calls never affect the inbound response: whatever the
\* fan-out goroutines of a request do and whenever they run, the status and
\* the body sent to the inbound client are those the location gives to the
\* request without them.
C14_FanOutIsolation ==
  \A p \in Requests :
    (Responded(p) /\ loc.Response # "")
      => <<EmittedStatus(rq[p].w), rq[p].resp>> \in ResponsesAlone(p)

\* The fan-out call i of request p has ended.
CallEnded(p, i) == rq[p].call[i].pc \in {"done", "panicked"}

\* C28 - for an async entry with retries = r, whatever integer the
\* descriptor carries, a fan-out call makes at least one and at most r+1
\* attempts, stops at the first attempt that succeeds, waits retry_delay
\* only between two consecutive attempts, and then terminates without
\* failing the process.
C28_RetryBounds ==
  \A p \in Requests : \A i \in 1..Len(loc.Async) :
    LET call == rq[p].call[i] IN
    /\ (call.pc = "call" /\ call.tries > 0) => call.result # "ok"
    /\ CallEnded(p, i) =>
         /\ call.tries >= 1
         /\ call.tries <= loc.Async[i].Retries + 1
         /\ call.waits = call.tries - 1
         /\ call.pc = "done"
         /\ ~crashed
\* ------------------------------------------------------------------------
\* Properties of the request pipeline
\* ------------------------------------------------------------------------

\* The request body is not valid JSON or does not satisfy the schema.
InvalidBody == inb.body \in {"notjson", "mismatch"}

\* A transaction record was built for p and handed to the batcher.
Captured(p) == rq[p].rec.built /\ rq[p].how \in {"queued", "direct", "failed", "dropped"}

\* C6 - random-cache coherence: within one inbound request, with or without
\* an X-Transaction-ID header, the response rendering and a fan-out body
\* rendering that call the same helper with the same arguments obtain the
\* same value.
C6_CacheCoherence ==
  \A p \in Requests : \A i \in 1..Len(loc.Async) :
    ( /\ rq[p].resp # "none" /\ rq[p].fan[i] # "none"
      /\ HelperOf(loc.Response) # "none"
      /\ HelperOf(loc.Response) = HelperOf(loc.Async[i].Body) )
      => rq[p].fan[i] = rq[p].resp

\* C7 as claimed - schema totality whatever the other settings: for a
\* location with a registered schema, every request with an invalid body is
\* answered with 400 and captured.
C7_SchemaTotality ==
  \A p \in Requests :
    (Served(p) /\ loc.Schema /\ InvalidBody)
      => (EmittedStatus(rq[p].w) = 400 /\ Captured(p))

\* C7 as amended - for a location with a registered schema that the request
\* handler serves (no static_files_dir), every request with an invalid body
\* that chaos does not short-circuit is answered with 400, and its record,
\* with status 400, is handed to the batcher.
C7_SchemaTotalityAmended ==
  \A p \in Requests :
    (Served(p) /\ loc.Schema /\ InvalidBody /\ ~loc.StaticFilesDir
       /\ ~rq[p].short)
      => /\ EmittedStatus(rq[p].w) = 400
         /\ Captured(p)
         /\ rq[p].rec.status = 400

\* C7 witness: a location with a schema and a chaos block; a request whose
\* JSON body the schema rejects passed chaos, got 400 and was captured.
C7_Witness ==
  \E p \in Requests :
    /\ Served(p) /\ loc.Schema /\ inb.body = "mismatch"
    /\ ~loc.ChaosInjection.nil /\ ~rq[p].short
    /\ EmittedStatus(rq[p].w) = 400
    /\ Captured(p) /\ rq[p].rec.status = 400

\* C10 - on every exit path of the handler, the status stored in the
\* captured record is the status sent to the client.
C10_StatusCaptured ==
  \A p \in Requests :
    (Served(p) /\ rq[p].rec.built)
      => rq[p].rec.status = EmittedStatus(rq[p].w)

\* C10 witness: under one location, a request aborted by chaos was captured
\* with 503 and a request that chaos let through was captured with the
\* status of its own exit path, each as sent.
C10_Witness ==
  \E p, q \in Requests :
    /\ Served(p) /\ rq[p].short /\ rq[p].rec.built
    /\ rq[p].rec.status = 503 /\ EmittedStatus(rq[p].w) = 503
    /\ Served(q) /\ ~rq[q].short /\ rq[q].rec.built
    /\ rq[q].rec.status \in {201, 400, 500}
    /\ rq[q].rec.status = EmittedStatus(rq[q].w)


\* C23 - a request served by a location that has static_files_dir set is
\* still captured: serving the directory is followed by the capture step,
\* so one transaction record is produced for the request.
C23_StaticCaptured ==
  \A p \in Requests :
    (Served(p) /\ loc.StaticFilesDir) => Captured(p)
\* ------------------------------------------------------------------------
\* Properties of the supervisor
\* ------------------------------------------------------------------------

\* C4 - port release on restart: when restart(name) has completed with
\* success, a listener for name is registered on the new port, and no
\* listener is registered on the port previously configured for name unless
\* another server of the tree declares that port.
C4_PortRelease ==
  restart.pc = "ok" =>
    /\ servers[restart.newPort] = restart.name
    /\ ( /\ restart.oldPort # restart.newPort
         /\ restart.oldPort \notin restart.declared )
         => servers[restart.oldPort] = "none"

\* C5 - a targeted restart does not disturb peers: during and after
\* restart(name), successful or failed, every listener that belonged to
\* another server when the restart began is registered as it was.
C5_PeersUndisturbed ==
  restart.pc # "idle" =>
    \A port \in Ports :
      (restart.before[port] \notin {"none", restart.name})
        => servers[port] = restart.before[port]


\* The listener map holds no listener of server n.
Absent(n) == \A port \in Ports : servers[port] # n

\* C13 - restart makes at most 3 attempts, waits 1 s after the first failed
\* attempt and 2 s after the second, returns success at the first attempt
\* that succeeds, and after 3 failed attempts reports the failure with the
\* listener that served the name absent from the listener map.
C13_RestartAttempts ==
  /\ restart.attempt <= 3
  /\ restart.pc \in {"locate", "bind"} => restart.wait = restart.attempt - 1
  /\ restart.pc = "failed" => (restart.attempt = 3 /\ Absent(restart.name))

\* The ports on which the listener map holds a listener of server n.
PortsOf(n) == {port \in Ports : servers[port] = n}

\* restartServerAttempt registers the replacement listener in this step.
ReplacementCreated == restart.pc = "bind" /\ restart'.pc = "ok"

\* C34 - the listener map never holds two listeners of one server; the
\* replacement is created only when no listener of the server is left in
\* the map and the port it binds is free; the stored configs change only in
\* a step after which the replacement is registered on the stored port.
C34_ReplaceAfterStop ==
  /\ [](\A n \in Names : Cardinality(PortsOf(n)) <= 1)
  /\ [][ReplacementCreated =>
          (Absent(restart.name) /\ isPortAvailable(restart.newPort))]_vars
  /\ [][configs' # configs =>
          servers'[configs'[restart.name]] = restart.name]_vars

\* C40 - after a successful restart every stored config has a listener in
\* the map on the port it declares, and every listener in the map is on a
\* port that a stored config declares.
C40_ConfigsMatchListeners ==
  restart.pc = "ok" =>
    /\ \A n \in Names : servers[configs[n]] # "none"
    /\ \A port \in Ports :
         servers[port] # "none" => \E n \in Names : configs[n] = port

\* ------------------------------------------------------------------------
\* Properties of start-up
\* ------------------------------------------------------------------------

\* The ports that have a listener in a listener map, and the ports a tree
\* declares.
Listeners(srv) == {port \in Ports : srv[port] # "none"}
TreePorts(tree) == {tree[i].listen : i \in 1..Len(tree)}

\* The step is a CreateServers call.
CreateStep == create' # create \/ servers' # servers

\* C17 - at most one listener per port: a CreateServers call leaves every
\* existing listener in place, returns an error when one of its servers
\* declares a port that has a listener, and when it succeeds for a tree of n
\* servers the listener map has gained exactly the n ports of the tree, each
\* holding the listener of its own server.
C17_OneListenerPerPort ==
  [][ CreateStep =>
        LET tree == create'.tree IN
        /\ \A port \in Listeners(servers) : servers'[port] = servers[port]
        /\ (\E i \in 1..Len(tree) : tree[i].listen \in Listeners(servers))
             => create'.err
        /\ ~create'.err =>
             /\ Listeners(servers') = Listeners(servers) \cup TreePorts(tree)
             /\ Cardinality(TreePorts(tree)) = Len(tree)
             /\ \A i \in 1..Len(tree) : servers'[tree[i].listen] = tree[i].name
    ]_vars

\* C17 witness: CreateServers succeeded for a first tree and then failed for
\* a tree that declares a port already taken; the first listener is still
\* in place.
C17_Witness ==
  /\ create.err
  /\ loaded.next = 2
  /\ \E i \in 1..Len(create.tree) :
       /\ servers[create.tree[i].listen] # "none"
       /\ servers[create.tree[i].listen] = loaded.configs[1][1].name
       /\ create.tree[i].name # loaded.configs[1][1].name

\* The loader has returned: an error and no tree, or the trees.
LoadRejected == loaded.pc # "new" /\ loaded.configs = <<>>
LoadAccepted == loaded.pc # "new" /\ loaded.configs # <<>>

\* All servers of all files of the directory.
DeclaredServers ==
  UNION {{<<k, i>> : i \in 1..Len(dir[k])} : k \in 1..Len(dir)}
AllServers == {dir[a[1]][a[2]] : a \in DeclaredServers}
AllLocations ==
  UNION {{s.locations[j] : j \in 1..Len(s.locations)} : s \in AllServers}

\* Two servers of the loaded descriptors declare the same listen port.
DuplicatePorts ==
  \E a, b \in DeclaredServers :
    a # b /\ dir[a[1]][a[2]].listen = dir[b[1]][b[2]].listen

\* C18 - the loader rejects duplicate listen ports: when two servers of the
\* loaded descriptors, in one file or in two, declare the same listen port,
\* loading returns an error and no tree.
C18_LoaderRejectsDuplicatePorts ==
  (loaded.pc # "new" /\ DuplicatePorts) => LoadRejected

\* The validation rules other than the status code range.
AllowedMethods == {"GET", "POST", "PUT", "DELETE", "PATCH"}
StatusInRange(c) == c.status >= 100 /\ c.status <= 599
StructureValid ==
  /\ dir # <<>>
  /\ \A k \in 1..Len(dir) : dir[k] # <<>>
  /\ \A s \in AllServers : s.listen > 0 /\ s.locations # <<>>
  /\ \A c \in AllLocations : c.path # "" /\ c.method \in AllowedMethods
  /\ ~DuplicatePorts

\* C19 - a location's status_code is accepted at load exactly when it lies
\* in [100,599]: a descriptor with a status code outside the range is
\* rejected, and one that breaks no other rule and has its status codes in
\* the range is accepted.
C19_StatusCodeRange ==
  loaded.pc # "new" =>
    /\ (\E c \in AllLocations : ~StatusInRange(c)) => LoadRejected
    /\ (StructureValid /\ \A c \in AllLocations : StatusInRange(c))
         => LoadAccepted

\* C20 - descriptor validation rejects a tree with no servers, a server
\* whose listen port is not greater than 0, a server with no locations, a
\* location with an empty path and a location whose method is empty or not
\* an allowed method, and accepts a tree that breaks no validation rule.
C20_ValidationRules ==
  loaded.pc # "new" =>
    /\ (\E k \in 1..Len(dir) : dir[k] = <<>>) => LoadRejected
    /\ (\E s \in AllServers : s.listen <= 0 \/ s.locations = <<>>)
         => LoadRejected
    /\ (\E c \in AllLocations : c.path = "" \/ c.method \notin AllowedMethods)
         => LoadRejected
    /\ (StructureValid /\ \A c \in AllLocations : StatusInRange(c))
         => LoadAccepted

\* ------------------------------------------------------------------------
\* Properties of add and stop running together
\* ------------------------------------------------------------------------

\* C11 - add never drops a record: every record handed to AddOperation is
\* placed on the input queue or goes through the direct insert (which may
\* itself succeed or fail), also when Stop runs at the same time.
C11_AddNeverDrops ==
  \A p \in Requests :
    (Served(p) /\ rq[p].rec.built) => rq[p].how \in {"queued", "direct", "failed"}

\* Stop has returned after stopping a running batcher.
StopReturned == stopPc = "done" /\ ~bmRunning

\* The records held when Stop was called are all in the store.
HeldPersisted == \A r \in heldAtStop : store[r] >= 1

\* C12 - stop persists what the batcher holds: the queues are closed in the
\* order input, batch, result, and with no store failure and no batch
\* timeout the input queue is closed only after every record that was in
\* the current batch, the input queue or the batch queue when Stop was
\* called has been flushed and written by the workers; so all of them are in
\* the store when Stop returns.
C12_StopPersists ==
  /\ batchClosed => inputClosed
  /\ resultClosed => batchClosed
  /\ (StoreHealthy /\ timeouts = 0) =>
       /\ inputClosed => HeldPersisted
       /\ StopReturned => HeldPersisted

\* C36 - no send on a closed queue: whatever the interleaving of add, the
\* aggregator, the flusher, the workers and Stop, no task's send to
\* BatchQueue or ResultQueue picks a queue that is already closed (the
\* runtime panic such a send raises ends the process).
C36_NoSendOnClosed == ~crashed

\* ------------------------------------------------------------------------
\* Properties of the plain response
\* ------------------------------------------------------------------------

\* The handler has returned the response of p to gin.
Answered(p) == rq[p].pc \in {"capture", "done"}

\* The location has neither chaos nor schema nor fan-out nor a static
\* directory.
PlainRoute ==
  /\ loc.ChaosInjection.nil /\ ~loc.Schema /\ loc.Async = <<>>
  /\ ~loc.StaticFilesDir

\* The location sets a Content-Type header (header names are not case
\* sensitive).
SetsContentType ==
  \E k \in DOMAIN loc.Headers : CanonicalKey(k) = "Content-Type"

\* C21 - for a location without chaos, schema or async entries, a matching
\* request is answered with the configured status code, the configured
\* response body (verbatim when it has no template markers) and every
\* configured header; Content-Type: application/json is added only when the
\* location did not set a Content-Type itself.
C21_PlainResponse ==
  \A p \in Requests :
    (Answered(p) /\ PlainRoute) =>
      /\ EmittedStatus(rq[p].w) = loc.StatusCode
      /\ (loc.Response # "" /\ ~HasTemplateVars(loc.Response))
           => rq[p].w.body = <<loc.Response>>
      /\ \A k \in DOMAIN loc.Headers :
           /\ CanonicalKey(k) \in DOMAIN rq[p].hdr
           /\ rq[p].hdr[CanonicalKey(k)] = loc.Headers[k]
      /\ ("Content-Type" \in DOMAIN rq[p].hdr
            /\ rq[p].hdr["Content-Type"] = "application/json")
           => ~SetsContentType

\* ------------------------------------------------------------------------
\* Properties of the response as sent and as captured
\* ------------------------------------------------------------------------

\* C25 - when the chaos error axis fires, the client receives a response
\* with status error.code whose body is error.response.
C25_ErrorResponse ==
  \A p \in Requests :
    ( /\ Answered(p) /\ rq[p].short /\ ~loc.ChaosInjection.nil
      /\ EmittedStatus(rq[p].w) = loc.ChaosInjection.v.Error.Code
      /\ loc.ChaosInjection.v.Error.Response # "" )
      => rq[p].w.body = <<loc.ChaosInjection.v.Error.Response>>

\* The bytes the client received as one string.
BytesWritten(w) == IF w.body = <<>> THEN "" ELSE w.body[1]

\* C26 - the response_body stored in the captured record equals the bytes
\* written to the client, on every exit path: the rendered text on success,
\* the validation-error body on a 400, the template-error body on a 500,
\* the error.response body when the chaos error axis fired, and an empty
\* body when chaos abort fired.
C26_BodyCaptured ==
  \A p \in Requests :
    (Served(p) /\ rq[p].rec.built)
      => rq[p].rec.body = BytesWritten(rq[p].w)

\* C27 - every read and every write of a transaction's random-value cache,
\* those made inside the generator helpers included, happens while the
\* random-cache mutex is held by the task that makes it, so no two tasks
\* ever access the same cache at the same time with one of them writing.
C27_CacheGuarded ==
  /\ \A a \in acc : randomCacheMutex = a.by
  /\ \A a \in acc, b \in acc : ~Conflict(a, b)

\* ------------------------------------------------------------------------
\* Properties of the shutdown
\* ------------------------------------------------------------------------

\* Every listener task that was started has finished.
AllJoined == \A id \in ListenerIds : lst[id].task \in {"none", "finished"}

\* C22 - stop_all terminates and joins everything: called at any moment
\* after start_all (also before a listener has finished starting), it
\* returns, and then every listener task started by start_all or by a
\* restart has finished and no listener is left serving.
C22_StopAllJoins ==
  (mgr.pc = "stopping") ~> (mgr.pc = "stopped" /\ AllJoined)

\* ------------------------------------------------------------------------
\* SpecConsumer
\* ------------------------------------------------------------------------
\* C29: a restart-handler invocation that has run longer than the per-restart
\* timeout has been abandoned: the consumer is back at its select on the
\* restart channel and the timeout is what it logged.
C29_TimeoutAbandons ==
  consumer.clock > Timeout =>
    (consumer.pc = "select" /\ consumer.log = "timeout")

\* ------------------------------------------------------------------------
\* The aggregator's batches
\* ------------------------------------------------------------------------
\* The aggregator, in its loop, hands the batch cb off: to the batch queue
\* or, the queue being full, to its own processBatch.
AggregatorDispatch ==
  /\ pr["agg"].pc = "lock"
  /\ batches' # batches

\* C30: the current batch never holds more than batch_size records and,
\* whenever BatchMutex is free, fewer than batch_size (a batch that reached
\* batch_size was handed off and replaced by an empty one); every batch the
\* aggregator's loop dispatches has exactly batch_size records.
C30_BatchSize ==
  /\ [](/\ Len(CurrentBatch) <= BatchSize
        /\ (batchMutex = None => Len(CurrentBatch) < BatchSize))
  /\ [][AggregatorDispatch =>
          Len(Append(CurrentBatch, aggOp)) = BatchSize]_vars

\* ------------------------------------------------------------------------
\* SpecBatchLive
\* ------------------------------------------------------------------------
\* Record r waits in the batcher: on the input queue, in the aggregator's
\* hand, or in the current batch.
Waiting(r) ==
  \/ r \in RecordsOf(InputQueue)
  \/ aggOp = r
  \/ r \in RecordsOf(CurrentBatch) /\ \A b \in batches : r \notin RecordsOf(b)

\* Record r is in a batch that sendBatch handed off.
Dispatched(r) == \E b \in batches : r \in RecordsOf(b)

\* Record r is in the batch a task is writing.
WithWriter(r) ==
  \E t \in Tasks : pr[t].pc \in {"try", "wait", "ret"} /\ r \in RecordsOf(pr[t].batch)

\* C31: while the process runs, a record accepted onto the input queue is
\* eventually dispatched and handed to a writer, whether or not the current
\* batch ever fills.
C31_FlushDispatches ==
  \A r \in Requests :
    /\ Waiting(r) ~> (Dispatched(r) \/ ~Alive)
    /\ Waiting(r) ~> (WithWriter(r) \/ ~Alive)

\* C31 witness: a batch shorter than batch_size was dispatched and its record
\* stored, with nothing left waiting.
C31_Witness ==
  /\ Alive /\ Quiescent
  /\ \E b \in batches : Len(b) < BatchSize /\ Len(b) > 0 /\ AllRows(b)

\* ------------------------------------------------------------------------
\* processBatch and its attempts
\* ------------------------------------------------------------------------
\* C32: processBatch makes at most retry_attempts attempts and stops at the
\* first attempt that commits: a task is never about to start a further
\* attempt for a batch whose rows an earlier attempt has committed.
C32_RetryStops ==
  \A t \in Tasks :
    /\ pr[t].attempt <= RetryAttempts
    /\ (pr[t].pc = "try" /\ pr[t].attempt > 1 /\ pr[t].batch # <<>>)
         => ~AllRows(pr[t].batch)

\* ------------------------------------------------------------------------
\* The batcher's counters
\* ------------------------------------------------------------------------
\* The batches handed off so far whose rows are in the store.
CommittedBatches == {b \in batches : AllRows(b)}

RECURSIVE RecordCount(_)
RecordCount(S) ==
  IF S = {} THEN 0
  ELSE LET b == CHOOSE x \in S : TRUE IN Len(b) + RecordCount(S \ {b})

\* C33: once the batcher has nothing in flight (and no attempt was abandoned
\* on timeout), the committed-batches counter is the number of committed
\* batches, the processed-records counter is the number of records in them,
\* and the error counter is the number of batches that exhausted their
\* retries, whichever task processed them.
C33_CountersMatch ==
  (Quiescent /\ timeouts = 0) =>
    /\ TotalBatches = Cardinality(CommittedBatches)
    /\ TotalProcessed = RecordCount(CommittedBatches)
    /\ TotalErrors = Cardinality(batches \ CommittedBatches)

\* ------------------------------------------------------------------------
\* SpecExclusion
\* ------------------------------------------------------------------------
\* A step changes the listener map or the stored configs.
Mutation == servers' # servers \/ configs' # configs

\* C35: the listener map and the stored configs change only in steps of a
\* restart run by the consumer's one goroutine (so one restart at a time),
\* and never while Manager.Stop ranges over the listener map; a restart is
\* in progress only while the consumer is inside its call.
C35_RestartExclusive ==
  /\ [](restart.pc \in {"locate", "bind"} => consumer.pc = "invoke")
  /\ [][Mutation => (consumer.pc = "invoke" /\ mgr.pc # "stopping")]_vars

\* C35 witness: Manager.Stop ranges over a listener map that a restart has
\* changed before, with signals still queued.
C35_Witness ==
  /\ mgr.pc = "stopping" /\ mgr.todo # {}
  /\ restart.pc = "ok" /\ servers # InitialServers
  /\ restartChan # <<>>

\* ------------------------------------------------------------------------
\* SpecWatcher
\* ------------------------------------------------------------------------
\* C37: the ConfigWatcher never has two restart handlers executing at the
\* same time.
C37_OneHandler == Cardinality(watcher.handlers) <= 1

\* ------------------------------------------------------------------------
\* SpecLifecycle
\* ------------------------------------------------------------------------
\* The run goroutine exists and has not returned.
LoopAlive == consumer.pc \notin {"none", "exited"}

\* C38: whenever the RestartManager reports that it is running (IsRunning,
\* which waits for a Stop in progress), its consumer loop is alive, after
\* any sequence of Start and Stop.
C38_RunningMeansAlive ==
  (consumer.running /\ mgr.pc # "join") => LoopAlive

\* ------------------------------------------------------------------------
\* SpecWorkerLive
\* ------------------------------------------------------------------------
StartReturns(c) ==
  /\ worker.call[c].op = "Start" /\ worker.call[c].pc = "Return"
  /\ worker'.call[c].pc = "idle"

\* C39: every call of Worker.Start or Worker.Stop returns, and when Start
\* returns on a worker that was not running, MaxWorkers routines run and
\* the worker is running with its context live.
C39_StartStopReturn ==
  /\ \A c \in Callers :
       (worker.call[c].op \in {"Start", "Stop"}) ~> (worker.call[c].pc = "idle")
  /\ [][\A c \in Callers :
          (StartReturns(c) /\ ~worker.Running) =>
             (worker'.Running /\ worker'.routines = MaxWorkers
                /\ ~worker'.cancelled)]_vars
====
